---- MODULE Spec2Model ----
(***************************************************************************)
(* Model of the embedded SQLite-backed broker of                           *)
(* src/src/streaming/simple/server.py: SimpleKafkaServer (the log store    *)
(* and broker core), and the SimpleKafkaProducer / SimpleKafkaConsumer     *)
(* clients that call it in-process.                                        *)
(*                                                                         *)
(* Time.  `now' is wall-clock time in ticks of TickMs milliseconds (the    *)
(* finest interval the program uses, time.sleep(0.5)).  SQLite's           *)
(* CURRENT_TIMESTAMP and datetime('now') are UTC text with whole seconds;  *)
(* Python's datetime.now() is naive LOCAL time, `tz' hours ahead of UTC.   *)
(***************************************************************************)
EXTENDS Integers, Sequences, FiniteSets, TLC

(* ------------------------------ bounds --------------------------------- *)
MaxMsgs == 3
MaxPartitionArg == 1
MaxPartitionCount == 7
MaxCommitOffset == 2

(* ------------------------- program constants --------------------------- *)
TickMs == 500
DefaultPartitions == 1
DefaultRetentionHours == 24
StaleSeconds == 30
DefaultLimit == 100
SepSpace == 32
SepT == 84

SecondsPerHour == 3600
SecondsPerDay == 86400

(* ---------------------------- input sets ------------------------------- *)
TopicNames == {"orders", "events"}
GroupIds == {"g1", "g2"}
MemberIds == {"a", "b", "c"}
Producers == {1, 2}
PartitionArgs == 0..MaxPartitionArg
PartitionCounts == 1..MaxPartitionCount
RetentionChoices == {6, DefaultRetentionHours}
KeyChoices == {"None"}
\* Python values handed to send_message: a list and a tuple with the same
\* elements (json.dumps writes both as a JSON array).
PyValues == {<<"list", 1>>, <<"tuple", 1>>}
NoValue == <<"none", 0>>

VARIABLES
    topics,            \* table topics: topic_name -> [partitions, retention_hours]
    messages,          \* table messages: rows in id order
    next_id,           \* AUTOINCREMENT counter of messages.id
    consumer_offsets,  \* table consumer_offsets: <<group, topic, partition>> -> current_offset
    group_members,     \* table group_members: <<group, member>> -> last_heartbeat (UTC seconds)
    now,               \* wall clock, ticks of TickMs since a UTC midnight
    tz,                \* local time zone of the host, hours ahead of UTC
    prod,              \* per producer thread: position inside send_message
    cons,              \* per SimpleKafkaConsumer object: its attributes and the
                       \* position of its iteration
    ret,               \* the last completed call: [op, args, val], and aux: what the
                       \* call did inside the store (row id written, rows purged)
    returned,          \* history: offsets returned by send_message per <<topic, partition>>
    last_commit,       \* history: per key, the offset of the latest commit_offset call
                       \* and the highest offset ever committed
    first_created      \* history: partition count given when a topic was first created

vars == <<topics, messages, next_id, consumer_offsets, group_members, now, tz,
          prod, cons, ret, returned, last_commit, first_created>>

storeVars == <<topics, messages, next_id, consumer_offsets, group_members>>
histVars == <<returned, last_commit, first_created>>

(* ------------------------------ helpers -------------------------------- *)
Min(a, b) == IF a < b THEN a ELSE b
Max(a, b) == IF a > b THEN a ELSE b

RECURSIVE SeqRange(_, _)
\* Python list(range(lo, hi))
SeqRange(lo, hi) == IF lo >= hi THEN <<>> ELSE <<lo>> \o SeqRange(lo + 1, hi)

SeqToSet(s) == {s[i] : i \in 1..Len(s)}

RECURSIVE SelectRows(_, _, _)
\* rows of a table (in rowid order) satisfying WHERE topic = t AND partition = p
SelectRows(rows, t, p) ==
    IF rows = <<>> THEN <<>>
    ELSE IF Head(rows).topic = t /\ Head(rows).partition = p
         THEN <<Head(rows)>> \o SelectRows(Tail(rows), t, p)
         ELSE SelectRows(Tail(rows), t, p)

RECURSIVE InsertByOffset(_, _)
InsertByOffset(sorted, r) ==
    IF sorted = <<>> THEN <<r>>
    ELSE IF Head(sorted).offset <= r.offset
         THEN <<Head(sorted)>> \o InsertByOffset(Tail(sorted), r)
         ELSE <<r>> \o sorted

RECURSIVE OrderByOffset(_)
\* ORDER BY offset ASC; rows with equal offsets stay in rowid order, the order
\* of the index idx_messages_topic_partition(topic, partition, offset).
OrderByOffset(rows) ==
    IF rows = <<>> THEN <<>>
    ELSE InsertByOffset(OrderByOffset(SubSeq(rows, 1, Len(rows) - 1)), rows[Len(rows)])

RECURSIVE FilterFrom(_, _)
FilterFrom(rows, k) ==
    IF rows = <<>> THEN <<>>
    ELSE IF Head(rows).offset >= k
         THEN <<Head(rows)>> \o FilterFrom(Tail(rows), k)
         ELSE FilterFrom(Tail(rows), k)

Limit(rows, n) == SubSeq(rows, 1, Min(Len(rows), Max(n, 0)))

RECURSIVE MaxOffsetOf(_)
\* MAX(offset) over rows; the empty table gives NULL, which COALESCE turns into -1
MaxOffsetOf(rows) ==
    IF rows = <<>> THEN -1
    ELSE Max(Head(rows).offset, MaxOffsetOf(Tail(rows)))

(* --------------------------- time and text ----------------------------- *)
\* whole UTC seconds shown by the clock
UtcSeconds(t) == (t * TickMs) \div 1000

\* CURRENT_TIMESTAMP / datetime(): 'YYYY-MM-DD HH:MM:SS', as <<date, separator, time of day>>
SqliteText(sec) == <<sec \div SecondsPerDay, SepSpace, sec % SecondsPerDay>>

\* datetime.isoformat(): 'YYYY-MM-DDTHH:MM:SS.ffffff', as <<date, separator, time of day>>
IsoFormat(sec) == <<sec \div SecondsPerDay, SepT, sec % SecondsPerDay>>

\* SQLite compares two TEXT values byte by byte: the date first, then the
\* separator character, then the time of day.
TextLess(a, b) ==
    \/ a[1] < b[1]
    \/ a[1] = b[1] /\ a[2] < b[2]
    \/ a[1] = b[1] /\ a[2] = b[2] /\ a[3] < b[3]

\* datetime.now(): naive local time, in seconds
LocalNowSeconds(t, zone) == UtcSeconds(t) + zone * SecondsPerHour

(* ------------------------------- JSON ---------------------------------- *)
\* json.dumps: lists and tuples both become a JSON array
JsonDumps(v) == IF v[1] = "tuple" THEN <<"array", v[2]>>
                ELSE IF v[1] = "list" THEN <<"array", v[2]>>
                ELSE <<"null", 0>>

\* json.dumps raises TypeError on a value that is not JSON serializable (a set)
Unserializable == <<"set", 1>>
Serializable(v) == v[1] # "set"

\* json.loads: a JSON array becomes a list
JsonLoads(s) == IF s[1] = "array" THEN <<"list", s[2]>> ELSE NoValue

(* ====================== SimpleKafkaServer: the store =================== *)
\* INSERT OR IGNORE INTO topics: a second row for an existing name is dropped
CreateTopicRowsReplace(tp, t, n, r) ==
    (t :> [partitions |-> n, retention_hours |-> r]) @@ tp

CreateTopicRows(tp, t, n, r) ==
    IF t \in DOMAIN tp THEN tp
    ELSE tp @@ (t :> [partitions |-> n, retention_hours |-> r])

\* list_topics()
ListTopics(tp) == DOMAIN tp

\* send_message, lines 190-191: create the topic with the defaults when absent
EnsureTopic(tp, t) ==
    IF t \notin ListTopics(tp)
    THEN CreateTopicRows(tp, t, DefaultPartitions, DefaultRetentionHours)
    ELSE tp

\* SELECT COALESCE(MAX(offset), -1) + 1 FROM messages WHERE topic = ? AND partition = ?
NextOffsetOfTopic(rows, t, p) ==
    MaxOffsetOf(SelectSeq(rows, LAMBDA r : r.topic = t)) + 1

NextOffset(rows, t, p) == MaxOffsetOf(SelectRows(rows, t, p)) + 1

\* INSERT INTO messages (topic, partition, offset, key, value); id and timestamp by default
InsertMessage(rows, id, t, p, off, k, v, sec) ==
    Append(rows, [id |-> id, topic |-> t, partition |-> p, offset |-> off,
                  key |-> k, value |-> JsonDumps(v), timestamp |-> sec])

\* the dict built from a row by consume_messages, value decoded
LoadRow(r) == [id |-> r.id, topic |-> r.topic, partition |-> r.partition,
               offset |-> r.offset, key |-> r.key, value |-> JsonLoads(r.value),
               timestamp |-> r.timestamp]

RECURSIVE LoadRows(_)
LoadRows(rows) ==
    IF rows = <<>> THEN <<>> ELSE <<LoadRow(Head(rows))>> \o LoadRows(Tail(rows))

\* from_offset is <<>> for None and <<k>> for the integer k
WhereFrom(rows, from) == IF from = <<>> THEN rows ELSE FilterFrom(rows, from[1])

\* consume_messages(topic, partition, from_offset, limit)
ConsumeRows(rows, t, p, from, limit) ==
    LoadRows(Limit(OrderByOffset(WhereFrom(SelectRows(rows, t, p), from)), limit))

\* INSERT INTO consumer_offsets ... ON CONFLICT DO UPDATE SET current_offset = excluded.current_offset
CommitRowsKeepMax(co, g, t, p, off) ==
    IF <<g, t, p>> \in DOMAIN co /\ co[<<g, t, p>>] > off THEN co
    ELSE (<<g, t, p>> :> off) @@ co

CommitRows(co, g, t, p, off) == (<<g, t, p>> :> off) @@ co

\* get_committed_offset: row[0] if row else 0
CommittedOffset(co, g, t, p) ==
    IF <<g, t, p>> \in DOMAIN co THEN co[<<g, t, p>>] ELSE 0

(* ================== SimpleKafkaServer: retention, info ================== *)
\* line 326: (datetime.now() - timedelta(hours = retention_hours)).isoformat()
Cutoff(t, zone, retention_hours) ==
    IsoFormat(LocalNowSeconds(t, zone) - retention_hours * SecondsPerHour)

\* DELETE FROM messages WHERE topic = ? AND timestamp < ?, for one topic
Expired(r, tp, t, zone) ==
    /\ r.topic \in DOMAIN tp
    /\ TextLess(SqliteText(r.timestamp), Cutoff(t, zone, tp[r.topic].retention_hours))

\* cleanup_old_messages: the rows left after the loop over all topics
CleanupRows(rows, tp, t, zone) == SelectSeq(rows, LAMBDA r : ~ Expired(r, tp, t, zone))

\* clear_topic: DELETE FROM messages WHERE topic = ?
ClearRowsOfPartition0(rows, t) ==
    SelectSeq(rows, LAMBDA r : ~ (r.topic = t /\ r.partition = 0))

ClearRows(rows, t) == SelectSeq(rows, LAMBDA r : r.topic # t)

\* get_topic_info
TopicInfo(tp, rows, t) ==
    IF t \notin DOMAIN tp THEN [error |-> "Topic not found"]
    ELSE LET stats(p) == [messages |-> Len(SelectRows(rows, t, p)),
                          latest_offset |-> MaxOffsetOf(SelectRows(rows, t, p))]
             RECURSIVE Total(_)
             Total(n) == IF n <= 0 THEN 0 ELSE stats(n - 1).messages + Total(n - 1)
         IN  [partition_count |-> tp[t].partitions,
              total_messages |-> Total(tp[t].partitions),
              partitions |-> [q \in 0..(tp[t].partitions - 1) |-> stats(q)]]

(* ================= SimpleKafkaServer: consumer groups =================== *)
\* member ids in the order of ORDER BY member_id
MemberOrder == <<"a", "b", "c">>

\* INSERT INTO group_members ... ON CONFLICT DO UPDATE SET last_heartbeat = CURRENT_TIMESTAMP
RegisterRows(gm, g, m, sec) == (<<g, m>> :> sec) @@ gm

\* WHERE last_heartbeat < datetime('now', '-30 seconds')
IsStaleInclusive(hb, sec) ==
    ~ TextLess(SqliteText(sec - StaleSeconds), SqliteText(hb))

IsStale(hb, sec) == TextLess(SqliteText(hb), SqliteText(sec - StaleSeconds))

\* DELETE FROM group_members WHERE last_heartbeat < ...: every group's stale rows
PurgeNothing(gm, sec) == gm

PurgeStale(gm, sec) ==
    [k \in {x \in DOMAIN gm : ~ IsStale(gm[x], sec)} |-> gm[k]]

\* SELECT member_id FROM group_members WHERE group_id = ? ORDER BY member_id
SortedMembers(gm, g) == SelectSeq(MemberOrder, LAMBDA m : <<g, m>> \in DOMAIN gm)

IndexOf(seq, x) == (CHOOSE i \in 1..Len(seq) : seq[i] = x) - 1

\* lines 157-167: the range of the member at member_index among member_count
RangeOfNoRemainder(partition_count, member_index, member_count) ==
    LET partitions_per_member == Max(1, partition_count \div member_count)
        start_p == member_index * partitions_per_member
    IN  SeqRange(start_p, Min(start_p + partitions_per_member, partition_count))

RangeOfFloor(partition_count, member_index, member_count) ==
    LET partitions_per_member == partition_count \div member_count
        start_p == member_index * partitions_per_member
    IN  IF member_index = member_count - 1
        THEN SeqRange(start_p, partition_count)
        ELSE SeqRange(start_p, Min(start_p + partitions_per_member, partition_count))

RangeOf(partition_count, member_index, member_count) ==
    LET partitions_per_member == Max(1, partition_count \div member_count)
        start_p == member_index * partitions_per_member
    IN  IF member_index = member_count - 1
        THEN SeqRange(start_p, partition_count)
        ELSE SeqRange(start_p, Min(start_p + partitions_per_member, partition_count))

\* lines 143-167 on the rows left by the purge
AssignFromAsNewcomer(gm, tp, g, t, m) ==
    LET members == SortedMembers(gm, g) IN
        IF t \notin DOMAIN tp THEN <<>>
        ELSE IF m \notin SeqToSet(members)
        THEN RangeOf(tp[t].partitions, 0, Len(members) + 1)
        ELSE RangeOf(tp[t].partitions, IndexOf(members, m), Len(members))

AssignFrom(gm, tp, g, t, m) ==
    LET members == SortedMembers(gm, g) IN
        IF m \notin SeqToSet(members) THEN <<>>
        ELSE IF t \notin DOMAIN tp THEN <<>>
        ELSE RangeOf(tp[t].partitions, IndexOf(members, m), Len(members))

\* get_group_assignments(group_id, topic, member_id) called at second sec
Assignments(gm, tp, g, t, m, sec) == AssignFrom(PurgeStale(gm, sec), tp, g, t, m)

(* ======================= producer threads: send_message ================= *)
\* topics_before: the topic names listed when the call began
IdleProducer == [pc |-> "idle", topic |-> "", partition |-> 0, value |-> NoValue,
                 key |-> "None", next_offset |-> 0, topics_before |-> {}]

InFlight == {c \in Producers : prod[c].pc = "insert"}

\* lines 190-199: ensure the topic, then read the next offset.  The SELECT runs
\* outside any transaction (sqlite3 opens one only before the INSERT), so the
\* connection holds no lock between this step and the INSERT.  max caps the
\* number of messages a run sends.
SendBegin(c, t, p, v, k, max) ==
    /\ prod[c].pc = "idle"
    /\ (next_id - 1) + Cardinality(InFlight) < max
    /\ topics' = EnsureTopic(topics, t)
    /\ first_created' = IF t \in DOMAIN first_created THEN first_created
                        ELSE first_created @@ (t :> DefaultPartitions)
    /\ prod' = [prod EXCEPT ![c] = [pc |-> "insert", topic |-> t, partition |-> p,
                                    value |-> v, key |-> k,
                                    next_offset |-> NextOffset(messages, t, p),
                                    topics_before |-> ListTopics(topics)]]
    /\ UNCHANGED <<messages, next_id, consumer_offsets, group_members, now, tz,
                   cons, ret, returned, last_commit>>

\* lines 202-207: INSERT, commit, return next_offset
SendInsert(c) ==
    /\ prod[c].pc = "insert"
    /\ Serializable(prod[c].value)
    /\ messages' = InsertMessage(messages, next_id, prod[c].topic, prod[c].partition,
                                 prod[c].next_offset, prod[c].key, prod[c].value,
                                 UtcSeconds(now))
    /\ next_id' = next_id + 1
    /\ ret' = [op |-> "send", args |-> <<prod[c].topic, prod[c].partition>>,
               val |-> prod[c].next_offset, aux |-> next_id]
    /\ returned' = [returned EXCEPT ![<<prod[c].topic, prod[c].partition>>] =
                        Append(@, prod[c].next_offset)]
    /\ prod' = [prod EXCEPT ![c] = IdleProducer]
    /\ UNCHANGED <<topics, consumer_offsets, group_members, now, tz, cons,
                   last_commit, first_created>>

\* lines 208-210: the INSERT raised (database locked, disk error) or json.dumps
\* raised on its value: print, return -1
SendFail(c) ==
    /\ prod[c].pc = "insert"
    /\ ret' = [op |-> "send", args |-> <<prod[c].topic, prod[c].partition>>,
               val |-> -1, aux |-> 0]
    /\ prod' = [prod EXCEPT ![c] = IdleProducer]
    /\ UNCHANGED <<storeVars, now, tz, cons, histVars>>

(* ========================= SimpleKafkaProducer ========================== *)
\* Python truth value of a value: None and empty containers are false
Truthy(v) == v[1] # "none" /\ v[2] # 0

\* line 484: value_serializer(value) if value else None, with the default
\* serializer lambda x: x
Serialized(v) == IF Truthy(v) THEN v ELSE NoValue

\* send(), in-process mode (line 503): server.send_message(topic,
\* serialized_value, key, partition); the handle is built from its result
ProducerSend(c, t, v, k, p, max) == SendBegin(c, t, p, Serialized(v), k, max)

\* flush(): pass
ProducerFlush(c) ==
    /\ prod[c].pc = "idle"
    /\ ret' = [op |-> "flush", args |-> <<c>>, val |-> 0, aux |-> 0]
    /\ UNCHANGED <<storeVars, now, tz, prod, cons, histVars>>

\* close(): pass
ProducerClose(c) ==
    /\ prod[c].pc = "idle"
    /\ ret' = [op |-> "close", args |-> <<c>>, val |-> 0, aux |-> 0]
    /\ UNCHANGED <<storeVars, now, tz, prod, cons, histVars>>

(* ====================== SimpleKafkaConsumer objects ===================== *)
Consumers == {1, 2}
RefreshMs == 10000
SleepMs == 500
FetchLimit == 50
DefaultTimeoutMs == 1000

NoConsumer ==
    [state |-> "none", group_id |-> "", member_id |-> "", topics |-> <<>>,
     consumer_timeout_ms |-> 0, current_offsets |-> <<>>, assigned_partitions |-> <<>>,
     start_time |-> 0, last_refresh |-> 0, pos |-> 0, batch |-> <<>>, found |-> FALSE,
     wake |-> 0, yielded |-> <<>>, iters |-> 0, began_at |-> 0,
     \* history: the offsets at which each key was first assigned, the number of
     \* periodic refreshes, the message id counter and the closed consumers at
     \* construction
     resume |-> <<>>, refreshes |-> 0, born_at |-> 0, prior |-> {},
     \* history: a request of the consumer has found the gateway unreachable
     unreachable |-> FALSE,
     \* history: the keys whose committed-offset fetch failed
     failed_fetch |-> {}]

RECURSIVE OffsetEntries(_, _, _, _)
\* lines 552-553: for p in partitions: assigned_partitions[(topic, p)] = committed offset
OffsetEntries(co, g, t, parts) ==
    IF parts = <<>> THEN <<>>
    ELSE <<[topic |-> t, partition |-> Head(parts),
            offset |-> CommittedOffset(co, g, t, Head(parts))]>>
         \o OffsetEntries(co, g, t, Tail(parts))

RECURSIVE AssignedEntries(_, _, _, _, _, _)
\* lines 533-553, the loop over self.topics on the membership left by the
\* heartbeat and the purge
AssignedEntries(gm, tp, co, g, m, tops) ==
    IF tops = <<>> THEN <<>>
    ELSE OffsetEntries(co, g, Head(tops), AssignFrom(gm, tp, g, Head(tops), m))
         \o AssignedEntries(gm, tp, co, g, m, Tail(tops))

\* register_consumer then the DELETE of get_group_assignments, once per topic
RefreshMembers(gm, g, m, tops, sec) ==
    IF tops = <<>> THEN gm ELSE PurgeStale(RegisterRows(gm, g, m, sec), sec)

HasKey(entries, e) ==
    \E i \in 1..Len(entries) :
        entries[i].topic = e.topic /\ entries[i].partition = e.partition

RECURSIVE DictUpdate(_, _)
\* dict.update: an existing key keeps its place and takes the new value, a new
\* key is added at the end; no key is removed
DictUpdate(entries, new) ==
    IF new = <<>> THEN entries
    ELSE LET e == Head(new)
             replaced == [i \in 1..Len(entries) |->
                             IF entries[i].topic = e.topic /\ entries[i].partition = e.partition
                             THEN e ELSE entries[i]]
         IN  DictUpdate(IF HasKey(entries, e) THEN replaced ELSE Append(entries, e),
                        Tail(new))

RECURSIVE AddNew(_, _)
\* the entries of new whose key is not yet in entries, added at the end
AddNew(entries, new) ==
    IF new = <<>> THEN entries
    ELSE AddNew(IF HasKey(entries, Head(new)) THEN entries
                ELSE Append(entries, Head(new)), Tail(new))

\* _refresh_assignments: the new attributes of the consumer
Refreshed(k, gm) ==
    LET assigned == AssignedEntries(gm, topics, consumer_offsets, k.group_id,
                                    k.member_id, k.topics)
    IN  [k EXCEPT !.assigned_partitions = assigned,
                  !.current_offsets = DictUpdate(k.current_offsets, assigned),
                  !.resume = AddNew(k.resume, assigned)]

RECURSIVE CommitAll(_, _, _)
\* commit(): commit_offset for every entry of current_offsets
CommitAll(co, g, entries) ==
    IF entries = <<>> THEN co
    ELSE CommitAll(CommitRows(co, g, Head(entries).topic, Head(entries).partition,
                              Head(entries).offset), g, Tail(entries))

RECURSIVE CommitHistory(_, _, _)
CommitHistory(lc, g, entries) ==
    IF entries = <<>> THEN lc
    ELSE LET e == Head(entries)
             key == <<g, e.topic, e.partition>>
         IN  CommitHistory((key :> [offset |-> e.offset,
                                    highest |-> IF key \in DOMAIN lc
                                                THEN Max(e.offset, lc[key].highest)
                                                ELSE e.offset]) @@ lc,
                           g, Tail(entries))

\* __init__: attributes, then _refresh_assignments
Construct(c, g, m, tops, timeout_ms) ==
    /\ cons[c].state = "none"
    /\ group_members' = RefreshMembers(group_members, g, m, tops, UtcSeconds(now))
    /\ cons' = [cons EXCEPT ![c] =
                   Refreshed([NoConsumer EXCEPT
                                  !.state = "ready", !.group_id = g,
                                  !.member_id = m, !.topics = tops,
                                  !.consumer_timeout_ms = timeout_ms,
                                  !.born_at = next_id,
                                  !.prior = {o \in Consumers : cons[o].state = "closed"}],
                             group_members')]
    /\ UNCHANGED <<topics, messages, next_id, consumer_offsets, now, tz, prod, ret,
                   histVars>>

\* __iter__, lines 558-560: a new iteration starts
IterStart(c) ==
    /\ cons[c].state \in {"ready", "ended"}
    /\ cons' = [cons EXCEPT ![c].state = "loop", ![c].start_time = now,
                            ![c].last_refresh = now, ![c].iters = @ + 1,
                            ![c].began_at = next_id]
    /\ UNCHANGED <<storeVars, now, tz, prod, ret, histVars>>

\* lines 562-568: the top of the while loop, with the refresh every 10 seconds
LoopTop(c) ==
    /\ cons[c].state = "loop"
    /\ LET due == (now - cons[c].last_refresh) * TickMs > RefreshMs
           k == [cons[c] EXCEPT !.state = "fetch", !.found = FALSE, !.pos = 1]
       IN  IF due
           THEN /\ group_members' = RefreshMembers(group_members, k.group_id,
                                                   k.member_id, k.topics, UtcSeconds(now))
                /\ cons' = [cons EXCEPT ![c] =
                               Refreshed([k EXCEPT !.last_refresh = now,
                                                   !.refreshes = @ + 1],
                                         group_members')]
           ELSE /\ cons' = [cons EXCEPT ![c] = k]
                /\ UNCHANGED group_members
    /\ UNCHANGED <<topics, messages, next_id, consumer_offsets, now, tz, prod, ret,
                   histVars>>

\* lines 569-578: the next entry of current_offsets is read from its offset
Fetch(c) ==
    /\ cons[c].state = "fetch"
    /\ cons[c].pos <= Len(cons[c].current_offsets)
    /\ LET e == cons[c].current_offsets[cons[c].pos]
           msgs == ConsumeRows(messages, e.topic, e.partition, <<e.offset>>, FetchLimit)
       IN  cons' = IF msgs = <<>>
                   THEN [cons EXCEPT ![c].pos = @ + 1]
                   ELSE [cons EXCEPT ![c].batch = msgs, ![c].state = "deliver"]
    /\ UNCHANGED <<storeVars, now, tz, prod, ret, histVars>>

\* lines 580-592: the next record of the batch moves the cursor and is yielded
DeliverAutoCommit(c) ==
    /\ cons[c].state = "deliver"
    /\ LET m == Head(cons[c].batch) IN
       /\ cons' = [cons EXCEPT ![c].found = TRUE,
                               ![c].current_offsets[cons[c].pos].offset = m.offset + 1,
                               ![c].yielded = Append(@, m),
                               ![c].batch = Tail(@),
                               ![c].state = "yielded"]
       /\ consumer_offsets' = CommitRows(consumer_offsets, cons[c].group_id, m.topic,
                                         m.partition, m.offset + 1)
    /\ UNCHANGED <<topics, messages, next_id, group_members, now, tz, prod, ret,
                   histVars>>

Deliver(c) ==
    /\ cons[c].state = "deliver"
    /\ LET m == Head(cons[c].batch) IN
       cons' = [cons EXCEPT ![c].found = TRUE,
                            ![c].current_offsets[cons[c].pos].offset = m.offset + 1,
                            ![c].yielded = Append(@, m),
                            ![c].batch = Tail(@),
                            ![c].state = "yielded"]
    /\ UNCHANGED <<storeVars, now, tz, prod, ret, histVars>>

\* the application asks for the next record: the generator resumes after yield
Resume(c) ==
    /\ cons[c].state = "yielded"
    /\ cons' = IF cons[c].batch # <<>>
               THEN [cons EXCEPT ![c].state = "deliver"]
               ELSE [cons EXCEPT ![c].state = "fetch", ![c].pos = @ + 1]
    /\ UNCHANGED <<storeVars, now, tz, prod, ret, histVars>>

\* lines 594-598: after the sweep over all entries
EndSweep(c) ==
    /\ cons[c].state = "fetch"
    /\ cons[c].pos > Len(cons[c].current_offsets)
    /\ cons' = IF ~ cons[c].found
               THEN IF (now - cons[c].start_time) * TickMs > cons[c].consumer_timeout_ms
                    THEN [cons EXCEPT ![c].state = "ended"]
                    ELSE [cons EXCEPT ![c].state = "sleep",
                                      ![c].wake = now + SleepMs \div TickMs]
               ELSE [cons EXCEPT ![c].state = "loop", ![c].start_time = now]
    /\ UNCHANGED <<storeVars, now, tz, prod, ret, histVars>>

\* line 596: time.sleep(0.5) returns once half a second has passed
WakeUp(c) ==
    /\ cons[c].state = "sleep"
    /\ now' = Max(now, cons[c].wake)
    /\ cons' = [cons EXCEPT ![c].state = "loop"]
    /\ UNCHANGED <<storeVars, tz, prod, ret, histVars>>

\* commit(), called by the application while the generator is not running
Commit(c) ==
    /\ cons[c].state \in {"ready", "yielded", "ended"}
    /\ consumer_offsets' = CommitAll(consumer_offsets, cons[c].group_id,
                                     cons[c].current_offsets)
    /\ last_commit' = CommitHistory(last_commit, cons[c].group_id,
                                    cons[c].current_offsets)
    /\ UNCHANGED <<topics, messages, next_id, group_members, now, tz, prod, cons, ret,
                   returned, first_created>>

\* close(): commit(), after which the application drops the object
Close(c) ==
    /\ cons[c].state \in {"ready", "yielded", "ended"}
    /\ consumer_offsets' = CommitAll(consumer_offsets, cons[c].group_id,
                                     cons[c].current_offsets)
    /\ last_commit' = CommitHistory(last_commit, cons[c].group_id,
                                    cons[c].current_offsets)
    /\ cons' = [cons EXCEPT ![c].state = "closed"]
    /\ UNCHANGED <<topics, messages, next_id, group_members, now, tz, prod, ret,
                   returned, first_created>>

(* =========================== single-call operations ===================== *)
CreateTopic(t, n, r) ==
    /\ topics' = CreateTopicRows(topics, t, n, r)
    /\ first_created' = IF t \in DOMAIN first_created THEN first_created
                        ELSE first_created @@ (t :> n)
    /\ ret' = [op |-> "create_topic", args |-> <<t, n, r>>, val |-> 0, aux |-> 0]
    /\ UNCHANGED <<messages, next_id, consumer_offsets, group_members, now, tz,
                   prod, cons, returned, last_commit>>

ConsumeMessages(t, p, from, limit) ==
    /\ ret' = [op |-> "consume", args |-> <<t, p, from, limit>>,
               val |-> ConsumeRows(messages, t, p, from, limit), aux |-> 0]
    /\ UNCHANGED <<storeVars, now, tz, prod, cons, histVars>>

CommitOffset(g, t, p, off) ==
    /\ consumer_offsets' = CommitRows(consumer_offsets, g, t, p, off)
    /\ last_commit' = (<<g, t, p>> :>
                           [offset |-> off,
                            highest |-> IF <<g, t, p>> \in DOMAIN last_commit
                                        THEN Max(off, last_commit[<<g, t, p>>].highest)
                                        ELSE off]) @@ last_commit
    /\ ret' = [op |-> "commit_offset", args |-> <<g, t, p, off>>, val |-> 0, aux |-> 0]
    /\ UNCHANGED <<topics, messages, next_id, group_members, now, tz, prod, cons,
                   returned, first_created>>

GetCommittedOffset(g, t, p) ==
    /\ ret' = [op |-> "get_committed_offset", args |-> <<g, t, p>>,
               val |-> CommittedOffset(consumer_offsets, g, t, p), aux |-> 0]
    /\ UNCHANGED <<storeVars, now, tz, prod, cons, histVars>>

RegisterConsumer(g, m) ==
    /\ group_members' = RegisterRows(group_members, g, m, UtcSeconds(now))
    /\ ret' = [op |-> "register_consumer", args |-> <<g, m>>, val |-> 0,
               aux |-> [at |-> now]]
    /\ UNCHANGED <<topics, messages, next_id, consumer_offsets, now, tz, prod, cons, histVars>>

GetGroupAssignments(g, t, m) ==
    /\ group_members' = PurgeStale(group_members, UtcSeconds(now))
    /\ ret' = [op |-> "get_group_assignments", args |-> <<g, t, m>>,
               val |-> Assignments(group_members, topics, g, t, m, UtcSeconds(now)),
               aux |-> [at |-> now,
                        purged |-> DOMAIN group_members \ DOMAIN group_members']]
    /\ UNCHANGED <<topics, messages, next_id, consumer_offsets, now, tz, prod, cons, histVars>>

CleanupOldMessages ==
    /\ messages' = CleanupRows(messages, topics, now, tz)
    /\ ret' = [op |-> "cleanup_old_messages", args |-> <<>>, val |-> 0,
               aux |-> [at |-> now,
                        deleted |-> {messages[i] : i \in 1..Len(messages)} \
                                    {messages'[i] : i \in 1..Len(messages')}]]
    /\ UNCHANGED <<topics, next_id, consumer_offsets, group_members, now, tz, prod, cons,
                   histVars>>

\* time passes: d ticks, the clock staying within max
Tick(d, max) ==
    /\ d > 0
    /\ now + d <= max
    /\ now' = now + d
    /\ UNCHANGED <<storeVars, tz, prod, cons, ret, histVars>>

(* ================================ Init ================================== *)
\* the state after SimpleKafkaServer.__init__ on a fresh database file
NoRet == [op |-> "none", args |-> <<>>, val |-> 0, aux |-> 0]

InitStore ==
    /\ topics = <<>>
    /\ messages = <<>>
    /\ next_id = 1
    /\ consumer_offsets = <<>>
    /\ group_members = <<>>
    /\ prod = [c \in Producers |-> IdleProducer]
    /\ cons = [c \in Consumers |-> NoConsumer]
    /\ ret = NoRet
    /\ returned = [tp \in TopicNames \X PartitionArgs |-> <<>>]
    /\ last_commit = <<>>
    /\ first_created = <<>>

Init ==
    /\ InitStore
    /\ now = 0
    /\ tz = 0

(* ============ SpecAppend: concurrent producers and readers ============== *)
AppendLimits == {1, DefaultLimit}
AppendFroms == {<<>>} \cup {<<k>> : k \in 0..MaxMsgs}

NextAppend ==
    \/ \E n \in {DefaultPartitions, MaxPartitionCount} :
           CreateTopic("orders", n, DefaultRetentionHours)
    \/ \E c \in Producers, p \in PartitionArgs :
           SendBegin(c, "orders", p, <<"tuple", 1>>, "None", MaxMsgs)
    \/ \E c \in Producers : SendInsert(c)
    \/ \E c \in Producers : SendFail(c)
    \/ \E p \in PartitionArgs, from \in AppendFroms, limit \in AppendLimits :
           ConsumeMessages("orders", p, from, limit)

SpecAppend == Init /\ [][NextAppend]_vars

(* ============ SpecOffsets: commit and fetch of group offsets ============ *)
\* a key, and keys differing from it in the group, the topic or the partition
OffsetKeys == {<<"g1", "orders", 0>>, <<"g2", "orders", 0>>,
               <<"g1", "events", 0>>, <<"g1", "orders", 1>>}

NextOffsets ==
    \/ \E k \in OffsetKeys, off \in 0..MaxCommitOffset :
           CommitOffset(k[1], k[2], k[3], off)
    \/ \E k \in OffsetKeys : GetCommittedOffset(k[1], k[2], k[3])

SpecOffsets == Init /\ [][NextOffsets]_vars

(* ======================= claims checked under SpecAppend ================ *)
StoredRows(t, p) == {r \in {messages[i] : i \in 1..Len(messages)} :
                        r.topic = t /\ r.partition = p}

\* C1: for every (topic, partition), the n offsets returned by successful
\* send_message calls (no deletion in between) are exactly 0..n-1, each once.
C1_OffsetsExactlyOnce ==
    \A tp \in DOMAIN returned :
        LET offs == returned[tp] IN
            /\ SeqToSet(offs) = 0..(Len(offs) - 1)
            /\ \A i, j \in 1..Len(offs) : i # j => offs[i] # offs[j]

\* C6: consume_messages(t, p, from_offset = k, limit = L) returns, in ascending
\* offset order, the first L stored records of the partition with offset >= k
\* (all offsets when from_offset is omitted); and right after send_message has
\* returned offset k for a record, reading from k returns that record first.
C6_ReadIsFirstLFrom ==
    ret.op = "consume" =>
        LET t == ret.args[1]
            p == ret.args[2]
            from == ret.args[3]
            limit == ret.args[4]
            res == ret.val
            match == {r \in StoredRows(t, p) : from = <<>> \/ r.offset >= from[1]}
            got == {res[i].id : i \in 1..Len(res)}
        IN  /\ Len(res) = Min(limit, Cardinality(match))
            /\ Cardinality(got) = Len(res)
            /\ got \subseteq {r.id : r \in match}
            /\ \A i \in 1..(Len(res) - 1) : res[i].offset <= res[i + 1].offset
            /\ \A r \in match : r.id \notin got =>
                   \A i \in 1..Len(res) : res[i].offset <= r.offset

C6_AppendedIsReadFirst ==
    (ret.op = "send" /\ ret.val >= 0) =>
        LET res == ConsumeRows(messages, ret.args[1], ret.args[2], <<ret.val>>,
                               DefaultLimit)
        IN  res # <<>> /\ Head(res).id = ret.aux /\ Head(res).offset = ret.val

C6_ReadFromOffset == C6_ReadIsFirstLFrom /\ C6_AppendedIsReadFirst

\* C7: a topic keeps the partition count of its first creation, whatever
\* create_topic and send_message calls follow.
C7_PartitionCountFixed ==
    \A t \in DOMAIN first_created :
        t \in DOMAIN topics /\ topics[t].partitions = first_created[t]

\* a second create_topic with another partition count has returned, and a
\* message has been sent to the topic
C7_Witness ==
    /\ ret.op = "create_topic"
    /\ ret.args[1] \in DOMAIN topics
    /\ topics[ret.args[1]].partitions # ret.args[2]
    /\ \E i \in 1..Len(messages) : messages[i].topic = ret.args[1]

\* C17: when the INSERT inside send_message fails, the call returns -1 and the
\* broker is as before the call: no message is added, the topic of the call is
\* listed only if it was listed before, and the topics, committed offsets and
\* group membership do not change in the failing step.
C17_FailedSendChangesNothing ==
    [][\A c \in Producers :
           SendFail(c) =>
               /\ ret'.val = -1
               /\ UNCHANGED <<messages, next_id, topics, consumer_offsets, group_members>>
               /\ prod[c].topic \in ListTopics(topics') =>
                      prod[c].topic \in prod[c].topics_before]_vars

(* ======================= claims checked under SpecOffsets =============== *)
\* C5: the committed offset of a key is the offset of the latest commit_offset
\* call for exactly that key (also when lower than an earlier one), 0 when the
\* key was never committed; get_committed_offset returns it.
C5_LastWriterWins ==
    /\ \A k \in OffsetKeys :
           CommittedOffset(consumer_offsets, k[1], k[2], k[3]) =
               IF k \in DOMAIN last_commit THEN last_commit[k].offset ELSE 0
    /\ ret.op = "get_committed_offset" =>
           ret.val = IF ret.args \in DOMAIN last_commit
                     THEN last_commit[ret.args].offset ELSE 0

\* get_committed_offset has returned an offset lower than one committed earlier
\* for the same key, while another key was never committed
C5_Witness ==
    /\ ret.op = "get_committed_offset"
    /\ ret.args \in DOMAIN last_commit
    /\ ret.val = last_commit[ret.args].offset
    /\ ret.val < last_commit[ret.args].highest
    /\ \E k \in OffsetKeys : k \notin DOMAIN last_commit

(* ============ SpecProducer: producer objects in two threads ============= *)
\* values given to send(): a list, a tuple, and the empty list
ProducerValues == PyValues \cup {<<"list", 0>>}

NextProducer ==
    \/ \E c \in Producers, p \in PartitionArgs, v \in ProducerValues :
           ProducerSend(c, "orders", v, "None", p, MaxMsgs)
    \/ \E c \in Producers : SendInsert(c)
    \/ \E c \in Producers : SendFail(c)
    \/ \E c \in Producers : ProducerFlush(c)
    \/ \E c \in Producers : ProducerClose(c)

SpecProducer == Init /\ [][NextProducer]_vars

\* C15: when send() returns a handle with offset >= 0, the record is stored
\* in that (topic, partition) at that offset and reading the partition from
\* that offset returns it first; flush() and close() change no broker state.
C15_SendIsSynchronous ==
    [][/\ \A c \in Producers :
              SendInsert(c) =>
                  LET res == ConsumeRows(messages', prod[c].topic, prod[c].partition,
                                         <<ret'.val>>, DefaultLimit)
                  IN  /\ ret'.val >= 0
                      /\ res # <<>>
                      /\ Head(res).id = ret'.aux
                      /\ Head(res).offset = ret'.val
       /\ \A c \in Producers :
              (ProducerFlush(c) \/ ProducerClose(c)) => UNCHANGED storeVars]_vars

\* C25: for every value v passed to send(), the falsy ones (here the empty
\* list) included, the record stored carries serializer(v), with the default
\* identity serializer: send() hands v itself to send_message, and the row
\* inserted holds its JSON text.
C25_StoresSerializedValue ==
    [][/\ \A c \in Producers, p \in PartitionArgs, v \in ProducerValues :
              ProducerSend(c, "orders", v, "None", p, MaxMsgs) => prod'[c].value = v
       /\ \A c \in Producers :
              SendInsert(c) =>
                  messages'[Len(messages')].value = JsonDumps(prod[c].value)]_vars

(* ============ SpecGroup: heartbeats and range assignment ================ *)
MaxGroupNow == 122
\* the clock moves in steps of 30 and 31 seconds
GroupSteps == {(30 * 1000) \div TickMs, (31 * 1000) \div TickMs}
GroupKeys == {<<"g1", "a">>, <<"g1", "b">>, <<"g1", "c">>, <<"g2", "a">>}

NextGroup ==
    \/ \E n \in PartitionCounts : CreateTopic("orders", n, DefaultRetentionHours)
    \/ \E k \in GroupKeys : RegisterConsumer(k[1], k[2])
    \/ \E k \in GroupKeys : GetGroupAssignments(k[1], "orders", k[2])
    \/ \E d \in GroupSteps : Tick(d, MaxGroupNow)

SpecGroup == Init /\ [][NextGroup]_vars

(* ======================= claims checked under SpecGroup ================= *)
LiveNow(g) == {m \in MemberIds : <<g, m>> \in DOMAIN group_members}

\* no row of the group is stale: the calls of the members change no membership
NoneStale(g) ==
    \A m \in LiveNow(g) : ~ IsStale(group_members[<<g, m>>], UtcSeconds(now))

ShareOf(g, t, m) ==
    SeqToSet(Assignments(group_members, topics, g, t, m, UtcSeconds(now)))

SharesPartition(g, t) ==
    /\ \A m1, m2 \in LiveNow(g) : m1 # m2 => ShareOf(g, t, m1) \cap ShareOf(g, t, m2) = {}
    /\ UNION {ShareOf(g, t, m) : m \in LiveNow(g)} = 0..(topics[t].partitions - 1)

LastMember(g) == LET s == SortedMembers(group_members, g) IN s[Len(s)]

\* the partitions left over when P is divided among M members: those numbered
\* from M * floor(P / M)
RemainderPartitions(P, M) == {x \in 0..(P - 1) : x >= M * (P \div M)}

C3_Case(g, t) ==
    /\ t \in DOMAIN topics
    /\ topics[t].partitions >= 1
    /\ LiveNow(g) # {}
    /\ NoneStale(g)

\* C3 as stated: for P >= 1 partitions and M >= 1 live members the members'
\* assignments are pairwise disjoint, their union is 0..P-1, and the remainder
\* partitions belong to the last member in sorted order.
C3_CoverWithRemainderToLast ==
    \A g \in GroupIds, t \in TopicNames :
        C3_Case(g, t) =>
            /\ SharesPartition(g, t)
            /\ RemainderPartitions(topics[t].partitions, Cardinality(LiveNow(g)))
                   \subseteq ShareOf(g, t, LastMember(g))

\* C3 amended: the assignments are pairwise disjoint and cover 0..P-1; when
\* M <= P the remainder partitions belong to the last member; when M > P the
\* first P members in sorted order own one partition each (member i owns
\* partition i) and the others, the last included, own none.
C3_CoverRemainderWhenEnough ==
    \A g \in GroupIds, t \in TopicNames :
        C3_Case(g, t) =>
            LET P == topics[t].partitions
                M == Cardinality(LiveNow(g))
                sorted == SortedMembers(group_members, g)
            IN  /\ SharesPartition(g, t)
                /\ M <= P => RemainderPartitions(P, M) \subseteq ShareOf(g, t, LastMember(g))
                /\ M > P => \A i \in 1..M :
                       ShareOf(g, t, sorted[i]) = IF i <= P THEN {i - 1} ELSE {}

\* get_group_assignments has just returned, to the last of three live members
\* of a topic with 7 partitions, the partitions 4, 5, 6
C3_Witness ==
    /\ ret.op = "get_group_assignments"
    /\ ret.aux.at = now
    /\ ret.aux.purged = {}
    /\ C3_Case(ret.args[1], ret.args[2])
    /\ Cardinality(LiveNow(ret.args[1])) = 3
    /\ topics[ret.args[2]].partitions = 7
    /\ ret.args[3] = LastMember(ret.args[1])
    /\ ret.val = <<4, 5, 6>>

\* age of a membership row on the store's clock, in whole seconds
HeartbeatAge(k) == UtcSeconds(now) - group_members[k]

AssignStep(g, t, m) ==
    /\ GetGroupAssignments(g, t, m)
    /\ \A k \in DOMAIN group_members :
           /\ (k[1] = g /\ HeartbeatAge(k) > 30) => k \notin DOMAIN group_members'
           /\ HeartbeatAge(k) <= 30 => k \in DOMAIN group_members'
    /\ (<<g, m>> \in DOMAIN group_members /\ HeartbeatAge(<<g, m>>) > 30) => ret'.val = <<>>
    /\ LET counted == SelectSeq(MemberOrder, LAMBDA x :
                          <<g, x>> \in DOMAIN group_members /\ HeartbeatAge(<<g, x>>) <= 30)
       IN  (m \in SeqToSet(counted) /\ t \in DOMAIN topics) =>
               ret'.val = RangeOf(topics[t].partitions, IndexOf(counted, m), Len(counted))

\* C8: in every get_group_assignments step, a member of the group whose last
\* heartbeat is more than 30 seconds old is removed and, when it is the
\* requester, gets the empty assignment; a member whose heartbeat is at most 30
\* seconds old stays; and the requester's share is its range among exactly the
\* members at most 30 seconds old.
C8_StaleExcluded ==
    [][\A k \in GroupKeys :
           GetGroupAssignments(k[1], "orders", k[2]) => AssignStep(k[1], "orders", k[2])]_vars

\* a requester 31 seconds old has just been purged and got the empty
\* assignment, while a member of its group exactly 30 seconds old stayed
C8_Witness ==
    /\ ret.op = "get_group_assignments"
    /\ ret.aux.at = now
    /\ <<ret.args[1], ret.args[3]>> \in ret.aux.purged
    /\ ret.val = <<>>
    /\ \E m \in LiveNow(ret.args[1]) : HeartbeatAge(<<ret.args[1], m>>) = 30
    /\ "orders" \in DOMAIN topics

\* C23: a get_group_assignments step for group G removes exactly the members
\* of G whose heartbeat is more than 30 seconds old: rows at most 30 seconds
\* old stay, and the rows of every other group are unchanged.
C23_PurgesOwnGroupOnly ==
    [][\A k \in GroupKeys :
           GetGroupAssignments(k[1], "orders", k[2]) =>
               /\ DOMAIN group_members \ DOMAIN group_members' =
                      {x \in DOMAIN group_members : x[1] = k[1] /\ HeartbeatAge(x) > 30}
               /\ \A x \in DOMAIN group_members' :
                      x \in DOMAIN group_members /\ group_members'[x] = group_members[x]]_vars

\* C27: get_group_assignments returns the empty assignment, and creates no
\* topic and no membership row, when the requester is not a live member of
\* the group (it never heartbeated, it was purged, or the group has no live
\* member) and when the topic does not exist.
C27_EmptyForUnknown ==
    [][\A k \in GroupKeys :
           (/\ GetGroupAssignments(k[1], "orders", k[2])
            /\ \/ k \notin DOMAIN group_members
               \/ HeartbeatAge(k) > 30
               \/ "orders" \notin DOMAIN topics) =>
               /\ ret'.val = <<>>
               /\ topics' = topics
               /\ DOMAIN group_members' \subseteq DOMAIN group_members]_vars

\* a member that never heartbeated has just asked for its assignment of an
\* existing topic while its group has a live member, and got none
C27_Witness ==
    /\ ret.op = "get_group_assignments"
    /\ ret.aux.at = now
    /\ "orders" \in DOMAIN topics
    /\ <<ret.args[1], ret.args[3]>> \notin DOMAIN group_members
    /\ <<ret.args[1], ret.args[3]>> \notin ret.aux.purged
    /\ \E m \in MemberIds : <<ret.args[1], m>> \in DOMAIN group_members
    /\ ret.val = <<>>

\* the range of floor(P / M) consecutive partitions from i * floor(P / M), the
\* last member taking everything from (M - 1) * floor(P / M) up to P - 1
FloorRange(P, M, i) ==
    LET q == P \div M IN
        IF i < M - 1 THEN SeqRange(i * q, i * q + q) ELSE SeqRange((M - 1) * q, P)

\* get_group_assignments has just returned to a live member of an existing topic
C19_Case ==
    /\ ret.op = "get_group_assignments"
    /\ ret.aux.at = now
    /\ ret.args[2] \in DOMAIN topics
    /\ <<ret.args[1], ret.args[3]>> \in DOMAIN group_members

\* C19 as stated: for P >= 1, M >= 1 live members and the index i of the
\* requester in the sorted live list, get_group_assignments returns the
\* floor(P/M) partitions from i * floor(P/M) when i < M - 1 and those from
\* (M - 1) * floor(P/M) to P - 1 when i = M - 1 (so when M > P only the last
\* member gets partitions, all P of them).
C19_RangeByFloor ==
    C19_Case =>
        LET sorted == SortedMembers(group_members, ret.args[1])
        IN  ret.val = FloorRange(topics[ret.args[2]].partitions, Len(sorted),
                                 IndexOf(sorted, ret.args[3]))

\* C19 amended: when M <= P the result is that range; when M > P the member of
\* index i < P gets exactly partition i and every member of index i >= P, the
\* last included, gets none.
C19_RangeByFloorWhenEnough ==
    C19_Case =>
        LET sorted == SortedMembers(group_members, ret.args[1])
            P == topics[ret.args[2]].partitions
            M == Len(sorted)
            i == IndexOf(sorted, ret.args[3])
        IN  /\ M <= P => ret.val = FloorRange(P, M, i)
            /\ M > P => ret.val = IF i < P THEN <<i>> ELSE <<>>

\* the second of three live members of a topic with 2 partitions has just been
\* given partition 1
C19_Witness ==
    /\ C19_Case
    /\ topics[ret.args[2]].partitions = 2
    /\ SortedMembers(group_members, ret.args[1]) = <<"a", "b", "c">>
    /\ ret.args[3] = "b"
    /\ ret.val = <<1>>

(* ============ SpecRetention: one producer, the clock, cleanup =========== *)
\* the clock moves in steps of six hours
RetentionStep == (6 * SecondsPerHour * 1000) \div TickMs
MaxRetentionSteps == 8
TzChoices == {-8, 0, 8}

InitRetention ==
    /\ InitStore
    /\ now = 0
    /\ tz \in TzChoices

NextRetention ==
    \/ \E t \in TopicNames, r \in RetentionChoices : CreateTopic(t, DefaultPartitions, r)
    \/ \E t \in TopicNames : SendBegin(1, t, 0, <<"list", 1>>, "None", MaxMsgs)
    \/ SendInsert(1)
    \/ CleanupOldMessages
    \/ Tick(RetentionStep, MaxRetentionSteps * RetentionStep)

SpecRetention == InitRetention /\ [][NextRetention]_vars

(* ===================== claims checked under SpecRetention =============== *)
\* C2: the offsets returned for a (topic, partition) are strictly increasing in
\* the order of the calls, also across cleanup_old_messages: none is returned
\* twice.
C2_OffsetsNeverReused ==
    \A tp \in DOMAIN returned :
        \A i, j \in 1..Len(returned[tp]) :
            i < j => returned[tp][i] < returned[tp][j]

RetentionSeconds(t) == topics[t].retention_hours * SecondsPerHour

\* C9: every message deleted by cleanup_old_messages is at least as old as the
\* retention duration of its own topic.
C9_OnlyExpiredDeleted ==
    ret.op = "cleanup_old_messages" =>
        \A r \in ret.aux.deleted :
            UtcSeconds(ret.aux.at) - r.timestamp >= RetentionSeconds(r.topic)

\* C10: right after cleanup_old_messages no message appended before now minus
\* its topic's retention_hours is stored, returned by consume_messages or
\* counted by get_topic_info.
C10_ExpiredAreGone ==
    (ret.op = "cleanup_old_messages" /\ ret.aux.at = now) =>
        \A t \in DOMAIN topics :
            LET old == {r \in {messages[i] : i \in 1..Len(messages)} :
                           /\ r.topic = t
                           /\ r.timestamp < UtcSeconds(now) - RetentionSeconds(t)}
                fresh == {r \in {messages[i] : i \in 1..Len(messages)} :
                             /\ r.topic = t
                             /\ r.timestamp >= UtcSeconds(now) - RetentionSeconds(t)}
            IN  /\ old = {}
                /\ \A p \in PartitionArgs :
                       \A m \in SeqToSet(ConsumeRows(messages, t, p, <<>>, DefaultLimit)) :
                           m.id \in {r.id : r \in fresh}
                /\ TopicInfo(topics, messages, t).total_messages <= Cardinality(fresh)

(* ===== SpecE2E: the "orders" scenario, two consumers of one group ======= *)
\* Topic "orders" with 3 partitions; producer 1 sends 9 messages round-robin;
\* consumer 1 is constructed, iterates to its idle timeout, commits and
\* closes; consumer 2 is then constructed with another member id and iterates;
\* a 10th message is sent to any partition once consumer 2 exists.  Time
\* passes in the sleeps of the consumers and in delays of E2EDelay ticks
\* (31 seconds) while the application, not a generator, is running.
MaxE2ENow == 130
MaxIters == 2
E2EDelay == (31 * 1000) \div TickMs
E2EValue == <<"list", 1>>

E2ECreate ==
    /\ topics = <<>>
    /\ CreateTopic("orders", 3, DefaultRetentionHours)

E2EProduceNine ==
    /\ "orders" \in DOMAIN topics
    /\ cons[1].state = "none"
    /\ SendBegin(1, "orders", (next_id - 1) % 3, E2EValue, "None", 9)

E2EProduceTenth ==
    /\ cons[2].state \notin {"none", "closed"}
    /\ \E p \in 0..2 : SendBegin(1, "orders", p, E2EValue, "None", 10)

E2EConstructFirst ==
    /\ next_id = 10
    /\ \E m \in {"a", "b"} : Construct(1, "g1", m, <<"orders">>, DefaultTimeoutMs)

E2EConstructSecond ==
    /\ cons[1].state = "closed"
    /\ \E m \in {"a", "b"} :
           m # cons[1].member_id /\ Construct(2, "g1", m, <<"orders">>, DefaultTimeoutMs)

E2EIterate ==
    \/ cons[1].iters = 0 /\ IterStart(1)
    \/ cons[2].iters < MaxIters /\ IterStart(2)

E2ECommitFirst == cons[1].state = "ended" /\ Commit(1)

E2EDelayed ==
    /\ \A c \in Consumers : cons[c].state \in {"none", "ready", "yielded", "ended", "closed"}
    /\ Tick(E2EDelay, MaxE2ENow)

E2ECloseFirst == cons[1].state = "ended" /\ Close(1)

NextE2E ==
    \/ E2ECreate
    \/ E2EProduceNine
    \/ E2EProduceTenth
    \/ SendInsert(1)
    \/ E2EConstructFirst
    \/ E2EConstructSecond
    \/ E2EIterate
    \/ \E c \in Consumers : LoopTop(c)
    \/ \E c \in Consumers : Fetch(c)
    \/ \E c \in Consumers : Deliver(c)
    \/ \E c \in Consumers : Resume(c)
    \/ \E c \in Consumers : EndSweep(c)
    \/ \E c \in Consumers : WakeUp(c)
    \/ E2ECommitFirst
    \/ E2ECloseFirst
    \/ E2EDelayed

SpecE2E == Init /\ [][NextE2E]_vars

(* ======================== claims checked under SpecE2E ================== *)
YieldedIds(c) == [i \in 1..Len(cons[c].yielded) |-> cons[c].yielded[i].id]

\* consumer 2 has ended an iteration that began after the 10th message was stored
E2EDone == cons[2].state = "ended" /\ cons[2].began_at = 11

\* C4: consumer 1, alone in its group, has yielded all 9 messages when it
\* closes; consumer 2 yields nothing before the 10th message is stored, and
\* once it has iterated to its idle timeout after the 10th message was stored
\* it has yielded exactly that message, once.
C4_ResumeYieldsTenthOnce ==
    /\ cons[1].state = "closed" => 1..9 \subseteq SeqToSet(YieldedIds(1))
    /\ next_id <= 10 => cons[2].yielded = <<>>
    /\ E2EDone => YieldedIds(2) = <<10>>

(* ===== SpecConsumer: consumers of the default group, one producer ======= *)
\* Topic "orders" with 2 partitions; one producer object sends up to
\* MaxConsumerMsgs messages round-robin; two consumer objects of the default group are
\* constructed and closed in any order, and one of them iterates and commits;
\* the broker is also read directly.  Time passes in the sleeps of the consumers and in pauses of
\* 10.5 seconds of the application over a record.
MaxConsumerMsgs == 2
MaxConsumerNow == 45
DefaultGroup == "default_group"
ConsumerPauses == {(RefreshMs + TickMs) \div TickMs}

\* the producer and the consumer objects belong to one application thread:
\* while a send is under way or the generator of a consumer runs (or sleeps),
\* the application calls nothing else
Suspended ==
    /\ prod[1].pc = "idle"
    /\ \A c \in Consumers :
           cons[c].state \in {"none", "ready", "yielded", "ended", "closed"}

ConsCreate ==
    /\ topics = <<>>
    /\ CreateTopic("orders", 2, DefaultRetentionHours)

\* the messages are produced before the first pause or sleep
ConsProduce ==
    /\ "orders" \in DOMAIN topics
    /\ now = 0
    /\ Suspended
    /\ ProducerSend(1, "orders", E2EValue, "None", (next_id - 1) % 2, MaxConsumerMsgs)

ConsConstruct ==
    /\ "orders" \in DOMAIN topics
    /\ Suspended
    /\ \E c \in Consumers, m \in {"a", "b"} :
           /\ \A o \in Consumers : cons[o].member_id # m
           /\ Construct(c, DefaultGroup, m, <<"orders">>, DefaultTimeoutMs)

\* consumer 2 iterates; consumer 1 is a member that only joins and leaves
ConsIterate == Suspended /\ cons[2].iters < 1 /\ IterStart(2)

ConsResume == Suspended /\ \E c \in Consumers : Resume(c)

\* the application commits, and reads the broker directly, after a record
ConsCommit == Suspended /\ cons[2].state = "yielded" /\ Commit(2)

ConsClose == Suspended /\ \E c \in Consumers : Close(c)

ConsRead ==
    /\ cons[2].state = "yielded"
    /\ Suspended
    /\ ConsumeMessages("orders", 0, <<0>>, FetchLimit)

\* the application takes its time over a record it has been given
ConsPause ==
    /\ Suspended
    /\ cons[2].state = "yielded"
    /\ \E d \in ConsumerPauses : Tick(d, MaxConsumerNow)

NextConsumer ==
    \/ ConsCreate
    \/ ConsProduce
    \/ SendInsert(1)
    \/ ConsConstruct
    \/ ConsIterate
    \/ \E c \in Consumers : LoopTop(c)
    \/ \E c \in Consumers : Fetch(c)
    \/ \E c \in Consumers : Deliver(c)
    \/ ConsResume
    \/ \E c \in Consumers : EndSweep(c)
    \/ \E c \in Consumers : WakeUp(c)
    \/ ConsCommit
    \/ ConsClose
    \/ ConsRead
    \/ ConsPause

SpecConsumer == Init /\ [][NextConsumer]_vars

(* ====================== claims checked under SpecConsumer =============== *)
\* a step of an iteration over consumer c, or a direct consume_messages call
IterationStep(c) ==
    \/ IterStart(c) \/ LoopTop(c) \/ Fetch(c) \/ Deliver(c)
    \/ Resume(c) \/ EndSweep(c) \/ WakeUp(c)

\* C11: consume_messages calls and the steps of an iteration (refreshes
\* included) leave every committed offset and every stored message unchanged; a
\* committed offset changes only in a commit() or close() of a consumer.
C11_ReadingNeverCommits ==
    [][/\ ((\E c \in Consumers : IterationStep(c)) \/ ConsRead) =>
              UNCHANGED <<consumer_offsets, messages, next_id>>
       /\ consumer_offsets' # consumer_offsets =>
              \E c \in Consumers : Commit(c) \/ Close(c)]_vars

\* after a refresh, consumer 2 holds its third record or a later one, the
\* application has read the broker directly, and nothing was ever committed
C11_Witness ==
    /\ cons[2].state = "yielded"
    /\ cons[2].refreshes >= 1
    /\ Len(cons[2].yielded) >= 3
    /\ ret.op = "consume"
    /\ ret.val # <<>>
    /\ consumer_offsets = <<>>

Keys(entries) == {<<entries[i].topic, entries[i].partition>> : i \in 1..Len(entries)}

OffsetAt(entries, key) ==
    LET i == CHOOSE j \in 1..Len(entries) :
                 <<entries[j].topic, entries[j].partition>> = key
    IN  entries[i].offset

YieldedOf(c, key) ==
    SelectSeq(cons[c].yielded, LAMBDA m : <<m.topic, m.partition>> = key)

\* last yielded record's offset + 1, or the resume offset when the consumer
\* has yielded no record of the partition
NextToRead(c, key) ==
    LET ys == YieldedOf(c, key) IN
        IF ys # <<>> THEN ys[Len(ys)].offset + 1 ELSE OffsetAt(cons[c].resume, key)

\* C12: a commit() or close() of a consumer leaves, for every assigned
\* (topic, partition), a committed offset equal to the offset of the last
\* record the consumer yielded from it plus 1, or to its resume offset when it
\* yielded none (so records fetched but not yet yielded are not covered).
C12_CommitWritesNextToRead ==
    [][\A c \in Consumers :
           (Commit(c) \/ Close(c)) =>
               \A key \in Keys(cons[c].assigned_partitions) :
                   CommittedOffset(consumer_offsets', cons[c].group_id, key[1], key[2])
                       = NextToRead(c, key)]_vars

\* C20: the partitions a consumer polls and commits, the keys of its cursor
\* table, are exactly those of its most recent assignment.
C20_PollsOnlyAssigned ==
    \A c \in Consumers :
        cons[c].state # "none" =>
            Keys(cons[c].current_offsets) = Keys(cons[c].assigned_partitions)

\* C16: a message stored before a consumer of the default group was
\* constructed, at an offset not below the group's committed offset, has been
\* yielded by that consumer with the value sent when its iteration ends on the
\* idle timeout, every other consumer of the group having been closed before
\* the construction.
C16_SentBeforeIsYielded ==
    \A c \in Consumers :
        (/\ cons[c].state = "ended"
         /\ cons[c].group_id = DefaultGroup
         /\ \A o \in Consumers \ {c} : cons[o].state = "none" \/ o \in cons[c].prior) =>
            \A i \in 1..Len(messages) :
                (/\ messages[i].id < cons[c].born_at
                 /\ CommittedOffset(consumer_offsets, DefaultGroup, messages[i].topic,
                                     messages[i].partition) <= messages[i].offset) =>
                    \E j \in 1..Len(cons[c].yielded) :
                        /\ cons[c].yielded[j].id = messages[i].id
                        /\ cons[c].yielded[j].value = E2EValue

\* a periodic refresh of consumer c (line 565)
PeriodicRefresh(c) == LoopTop(c) /\ cons'[c].refreshes = cons[c].refreshes + 1

\* C21: a periodic refresh leaves the cursor of every partition that stays
\* assigned unchanged, and starts the cursor of a newly assigned partition at
\* the committed offset.
C21_RefreshKeepsCursor ==
    [][\A c \in Consumers :
           PeriodicRefresh(c) =>
               \A key \in Keys(cons'[c].assigned_partitions) :
                   OffsetAt(cons'[c].current_offsets, key) =
                       IF key \in Keys(cons[c].assigned_partitions)
                       THEN OffsetAt(cons[c].current_offsets, key)
                       ELSE CommittedOffset(consumer_offsets, cons[c].group_id,
                                            key[1], key[2])]_vars

\* C32: under any interleaving of the consumers of one group (construct,
\* iterate, refresh, commit, close) with membership changes, the committed
\* offset of a (group, topic, partition) written by the consumer clients never
\* decreases.
C32_CommittedNeverDecreases ==
    [][\A k \in DOMAIN consumer_offsets :
          k \in DOMAIN consumer_offsets' =>
              consumer_offsets'[k] >= consumer_offsets[k]]_vars

(* ========== SpecIdle: one consumer iterating an idle topic ============== *)
\* Topic "orders" with 1 partition and up to MaxIdleMsgs messages, all sent
\* before the consumer is constructed.  The consumer is constructed with an idle
\* timeout shorter or longer than the refresh interval and iterated once; the
\* application asks for the next record as soon as it has one, and commits or
\* not.  Time passes in the sleeps of the consumer only, up to MaxIdleNow.
MaxIdleMsgs == 2
MaxIdleNow == 70
IdleTimeouts == {DefaultTimeoutMs, RefreshMs + 1000}

IdleCreate ==
    /\ topics = <<>>
    /\ CreateTopic("orders", DefaultPartitions, DefaultRetentionHours)

IdleProduce ==
    /\ "orders" \in DOMAIN topics
    /\ cons[1].state = "none"
    /\ ProducerSend(1, "orders", E2EValue, "None", 0, MaxIdleMsgs)

IdleConstruct ==
    /\ "orders" \in DOMAIN topics
    /\ prod[1].pc = "idle"
    /\ \E ms \in IdleTimeouts : Construct(1, DefaultGroup, "a", <<"orders">>, ms)

IdleIterate == cons[1].iters = 0 /\ IterStart(1)

IdleCommit == cons[1].state = "yielded" /\ Commit(1)

IdleWakeUp == cons[1].wake <= MaxIdleNow /\ WakeUp(1)

\* the steps the consumer takes by itself once iterated, and the application
\* asking for the next record
IdleRun ==
    \/ IdleIterate
    \/ LoopTop(1)
    \/ Fetch(1)
    \/ Deliver(1)
    \/ Resume(1)
    \/ EndSweep(1)
    \/ IdleWakeUp

NextIdle ==
    \/ IdleCreate
    \/ IdleProduce
    \/ SendInsert(1)
    \/ IdleConstruct
    \/ IdleCommit
    \/ IdleRun

\* a running generator goes on, a sleep returns, and the application keeps
\* iterating
SpecIdle == Init /\ [][NextIdle]_vars /\ WF_vars(IdleRun)

(* ======================== claims checked under SpecIdle ================= *)
\* C13: with no record appended after the construction, an iteration over the
\* consumer eventually ends, for an idle timeout shorter or longer than the
\* refresh interval and whether or not the application commits.
C13_IdleIterationEnds ==
    (cons[1].state = "ready") ~> (cons[1].state = "ended")

(* ===== SpecAdmin: topics, appends, topic info and clear_topic =========== *)
\* lines 190-191 as the two statements they are: list_topics() in the
\* condition, and create_topic(topic) when the name was not listed.  Another
\* call can run between them.
SendList(c, t, p, v, k, max) ==
    /\ prod[c].pc = "idle"
    /\ (next_id - 1) + Cardinality({d \in Producers : prod[d].pc # "idle"}) < max
    /\ prod' = [prod EXCEPT ![c] = [pc |-> "ensure", topic |-> t, partition |-> p,
                                    value |-> v, key |-> k, next_offset |-> 0,
                                    topics_before |-> ListTopics(topics)]]
    /\ UNCHANGED <<storeVars, now, tz, cons, ret, histVars>>

\* create_topic(topic) with the defaults (INSERT OR IGNORE) when the name was
\* not listed, then lines 193-199: the SELECT of the next offset
SendEnsure(c) ==
    /\ prod[c].pc = "ensure"
    /\ topics' = IF prod[c].topic \notin prod[c].topics_before
                 THEN CreateTopicRows(topics, prod[c].topic, DefaultPartitions,
                                      DefaultRetentionHours)
                 ELSE topics
    /\ first_created' = IF prod[c].topic \in DOMAIN first_created THEN first_created
                        ELSE first_created @@ (prod[c].topic :> DefaultPartitions)
    /\ prod' = [prod EXCEPT ![c].pc = "insert",
                            ![c].next_offset = NextOffset(messages, prod[c].topic,
                                                          prod[c].partition)]
    /\ UNCHANGED <<messages, next_id, consumer_offsets, group_members, now, tz,
                   cons, ret, returned, last_commit>>

GetTopicInfo(t) ==
    /\ ret' = [op |-> "get_topic_info", args |-> <<t>>,
               val |-> TopicInfo(topics, messages, t), aux |-> 0]
    /\ UNCHANGED <<storeVars, now, tz, prod, cons, histVars>>

ClearTopic(t) ==
    /\ messages' = ClearRows(messages, t)
    /\ ret' = [op |-> "clear_topic", args |-> <<t>>, val |-> 0, aux |-> 0]
    /\ UNCHANGED <<topics, next_id, consumer_offsets, group_members, now, tz, prod,
                   cons, histVars>>

\* Two topics, created explicitly with AdminPartitions partitions and
\* AdminRetentionHours of retention or by the first send; two producer threads
\* send up to MaxAdminMsgs messages to partitions 0 and 1.
MaxAdminMsgs == 2
AdminPartitions == 2
AdminRetentionHours == 6
AdminPartitionArgs == {0, 1}

AdminCreate ==
    \E t \in TopicNames : CreateTopic(t, AdminPartitions, AdminRetentionHours)

AdminSendList ==
    \E c \in Producers, t \in TopicNames, p \in AdminPartitionArgs :
        SendList(c, t, p, E2EValue, "None", MaxAdminMsgs)

AdminSendEnsure == \E c \in Producers : SendEnsure(c)

AdminSendInsert == \E c \in Producers : SendInsert(c)

AdminInfo == \E t \in TopicNames : GetTopicInfo(t)

AdminClear == \E t \in TopicNames : ClearTopic(t)

AdminCommit == CommitOffset("g1", "orders", 0, 1)

AdminRegister == RegisterConsumer("g1", "a")

NextAdmin ==
    \/ AdminCreate
    \/ AdminSendList
    \/ AdminSendEnsure
    \/ AdminSendInsert
    \/ AdminInfo
    \/ AdminClear
    \/ AdminCommit
    \/ AdminRegister

SpecAdmin == Init /\ [][NextAdmin]_vars

(* ======================= claims checked under SpecAdmin ================= *)
RowsOf(t) == {r \in {messages[i] : i \in 1..Len(messages)} : r.topic = t}

\* C24: get_topic_info of an existing topic returns its partition count, a
\* total_messages equal to the number of messages stored for the topic
\* whatever their partition, and per partition the message count and the
\* highest stored offset (-1 when empty); of an absent topic, a not-found
\* result.
C24_TopicInfoCountsAll ==
    [][\A t \in TopicNames :
           GetTopicInfo(t) =>
               IF t \notin DOMAIN topics
               THEN ret'.val = [error |-> "Topic not found"]
               ELSE /\ ret'.val.partition_count = topics[t].partitions
                    /\ ret'.val.total_messages = Cardinality(RowsOf(t))
                    /\ \A q \in 0..(topics[t].partitions - 1) :
                           /\ ret'.val.partitions[q].messages =
                                  Cardinality(StoredRows(t, q))
                           /\ ret'.val.partitions[q].latest_offset =
                                  IF StoredRows(t, q) = {} THEN -1
                                  ELSE CHOOSE o \in {r.offset : r \in StoredRows(t, q)} :
                                           \A r \in StoredRows(t, q) : r.offset <= o]_vars

\* C26: clear_topic(t) removes every message of t, in every partition, and
\* changes nothing else: the topics with their partition counts and
\* retentions, the messages of other topics, the committed offsets and the
\* group memberships.
C26_ClearRemovesOnlyMessagesOfTopic ==
    [][\A t \in TopicNames :
           ClearTopic(t) =>
               /\ \A i \in 1..Len(messages') : messages'[i].topic # t
               /\ messages' = SelectSeq(messages, LAMBDA r : r.topic # t)
               /\ UNCHANGED <<topics, consumer_offsets, group_members>>]_vars

\* a topic with 2 partitions and a retention of 6 hours, holding a record in
\* a partition other than 0, has just been cleared while the other topic
\* holds a record, an offset is committed and a member is registered
C26_Witness ==
    /\ ret.op = "clear_topic"
    /\ ret.args[1] \in DOMAIN topics
    /\ topics[ret.args[1]].partitions = AdminPartitions
    /\ returned[<<ret.args[1], 1>>] # <<>>
    /\ RowsOf(ret.args[1]) = {}
    /\ \E t \in TopicNames : RowsOf(t) # {}
    /\ consumer_offsets # <<>>
    /\ group_members # <<>>

\* C28: a send_message to a topic that does not exist creates it with 1
\* partition and stores the message; a send_message to an existing topic
\* never changes its partition count or retention, also when a create_topic
\* of the same name runs between its list_topics and its own create_topic.
C28_SendAutoCreatesOnly ==
    [][\A c \in Producers :
           /\ SendEnsure(c) =>
                  /\ \A t \in DOMAIN topics : topics'[t] = topics[t]
                  /\ prod[c].topic \in DOMAIN topics'
                  /\ prod[c].topic \notin DOMAIN topics =>
                         topics'[prod[c].topic].partitions = 1
           /\ SendInsert(c) =>
                  /\ topics' = topics
                  /\ prod[c].topic \in DOMAIN topics
                  /\ Len(messages') = Len(messages) + 1
                  /\ messages'[Len(messages')].topic = prod[c].topic
                  /\ messages'[Len(messages')].partition = prod[c].partition]_vars

\* a send found the topic missing, a create_topic with 2 partitions ran
\* before the send's own create_topic, and the topic still has 2 partitions
\* and a retention of 6 hours when the send is about to insert
C28_Witness ==
    \E c \in Producers :
        /\ prod[c].pc = "insert"
        /\ prod[c].topic \notin prod[c].topics_before
        /\ topics[prod[c].topic].partitions = AdminPartitions
        /\ topics[prod[c].topic].retention_hours = AdminRetentionHours

\* C29: the first append to a (topic, partition) gets offset 0, and an append
\* to one (topic, partition) changes neither the stored records nor the next
\* offset of any other partition or topic.
C29_OffsetsPartitionScoped ==
    [][\A c \in Producers :
           SendInsert(c) =>
               /\ returned[<<prod[c].topic, prod[c].partition>>] = <<>> => ret'.val = 0
               /\ \A t \in TopicNames, q \in AdminPartitionArgs :
                      <<t, q>> # <<prod[c].topic, prod[c].partition>> =>
                          /\ SelectRows(messages', t, q) = SelectRows(messages, t, q)
                          /\ NextOffset(messages', t, q) = NextOffset(messages, t, q)]_vars

\* the first append to partition 1 of a topic has just returned offset 0
\* while partition 0 of the same topic holds a record and has next offset 1
C29_Witness ==
    /\ ret.op = "send"
    /\ ret.val = 0
    /\ ret.args[2] = 1
    /\ returned[<<ret.args[1], 1>>] = <<0>>
    /\ NextOffset(messages, ret.args[1], 0) = 1
    /\ Len(SelectRows(messages, ret.args[1], 1)) = 1

(* ===== SpecRunning: the broker running, with its clients and the clock = *)
\* What happens while the broker runs: run_server pre-creates its topics and
\* serves requests, or the in-process singleton is called; clients send, read,
\* ask for topic information, commit, heartbeat and ask for assignments; the
\* clock moves in steps of six hours up to MaxRunSteps steps.  No statement of
\* the module calls cleanup_old_messages, so it is not among the steps.
MaxRunMsgs == 2
MaxRunSteps == 6
ServedPartitions == 3

\* run_server, lines 621-630: the topics are created before the server starts
RunServer ==
    /\ topics = <<>>
    /\ CreateTopic("orders", ServedPartitions, DefaultRetentionHours)

RunSend == \E t \in TopicNames : SendBegin(1, t, 0, E2EValue, "None", MaxRunMsgs)

RunInsert == SendInsert(1)

RunConsume == \E t \in TopicNames : ConsumeMessages(t, 0, <<>>, DefaultLimit)

RunInfo == \E t \in TopicNames : GetTopicInfo(t)

RunCommit == CommitOffset("g1", "orders", 0, 1)

RunHeartbeat == RegisterConsumer("g1", "a")

RunAssign == GetGroupAssignments("g1", "orders", "a")

RunTick == Tick(RetentionStep, MaxRunSteps * RetentionStep)

NextRunning ==
    \/ RunServer
    \/ RunSend
    \/ RunInsert
    \/ RunConsume
    \/ RunInfo
    \/ RunCommit
    \/ RunHeartbeat
    \/ RunAssign
    \/ RunTick

\* time keeps passing
SpecRunning == Init /\ [][NextRunning]_vars /\ WF_vars(RunTick)

(* ====================== claims checked under SpecRunning ================ *)
\* the stored messages older than the retention of their topic
Outdated ==
    {i \in 1..Len(messages) :
        UtcSeconds(now) - messages[i].timestamp > RetentionSeconds(messages[i].topic)}

\* C30: while the broker runs, messages older than the retention of their
\* topic are eventually deleted, with no client calling cleanup_old_messages.
C30_RetentionIsAutomatic == (Outdated # {}) ~> (Outdated = {})

(* ===== SpecRebalance: a member falls silent, the other keeps iterating == *)
\* Topic "orders" with 2 partitions and up to MaxRebMsgs messages, sent before
\* the consumers are constructed.  Consumer 1
\* joins the default group, may iterate, commit and close, and takes no step
\* once consumer 2 iterates: its heartbeat is never renewed.  Consumer 2 is
\* iterated once with an idle timeout that keeps the iteration alive through
\* the staleness window.  Time passes in the sleeps of consumer 2, up to
\* MaxRebNow.
MaxRebMsgs == 2
MaxRebNow == 70
SurvivorTimeoutMs == StaleSeconds * 1000 + RefreshMs + 5000
Silent == cons[2].iters > 0

RebCreate ==
    /\ topics = <<>>
    /\ CreateTopic("orders", 2, DefaultRetentionHours)

RebProduce ==
    /\ "orders" \in DOMAIN topics
    /\ \A c \in Consumers : cons[c].state = "none"
    /\ ProducerSend(1, "orders", E2EValue, "None", (next_id - 1) % 2, MaxRebMsgs)

RebConstruct ==
    /\ "orders" \in DOMAIN topics
    /\ ~ Silent
    /\ Suspended
    /\ \E c \in Consumers, m \in {"a", "b"} :
           /\ \A o \in Consumers : cons[o].member_id # m
           /\ Construct(c, DefaultGroup, m, <<"orders">>,
                        IF c = 1 THEN DefaultTimeoutMs ELSE SurvivorTimeoutMs)

\* the steps of consumer 1 and of its application, before it falls silent
RebFirst ==
    /\ ~ Silent
    /\ \/ cons[1].iters = 0 /\ IterStart(1)
       \/ LoopTop(1)
       \/ Fetch(1)
       \/ Deliver(1)
       \/ Resume(1)
       \/ EndSweep(1)
       \/ cons[1].state = "yielded" /\ Commit(1)
       \/ Close(1)

RebIterate ==
    /\ cons[2].iters = 0
    /\ cons[1].state \in {"ready", "yielded", "sleep", "ended", "closed"}
    /\ prod[1].pc = "idle"
    /\ IterStart(2)

RebCommit == cons[2].state = "yielded" /\ Commit(2)

RebWakeUp == cons[2].wake <= MaxRebNow /\ WakeUp(2)

\* the steps consumer 2 takes by itself once iterated, and its application
\* asking for the next record
RebRun ==
    \/ RebIterate
    \/ LoopTop(2)
    \/ Fetch(2)
    \/ Deliver(2)
    \/ Resume(2)
    \/ EndSweep(2)
    \/ RebWakeUp

NextRebalance ==
    \/ RebCreate
    \/ RebProduce
    \/ SendInsert(1)
    \/ RebConstruct
    \/ RebFirst
    \/ RebCommit
    \/ RebRun

SpecRebalance == Init /\ [][NextRebalance]_vars /\ WF_vars(RebRun)

(* ===================== claims checked under SpecRebalance =============== *)
TopicKeys(t) == {<<t, p>> : p \in 0..(topics[t].partitions - 1)}

\* consumer 1 is no longer a member and consumer 2 polls every partition of
\* the topic from the committed offset of the group
PicksUpAll ==
    /\ "orders" \in DOMAIN topics
    /\ <<DefaultGroup, cons[1].member_id>> \notin DOMAIN group_members
    /\ Keys(cons[2].current_offsets) = TopicKeys("orders")
    /\ \A key \in TopicKeys("orders") :
           OffsetAt(cons[2].current_offsets, key) =
               CommittedOffset(consumer_offsets, DefaultGroup, key[1], key[2])

\* C22: from the start of an iteration of a member that keeps iterating and
\* refreshing while the other member of the group has stopped heartbeating,
\* eventually (after the 30-second
\* staleness window and the next refresh) the silent member is purged and the
\* surviving member polls every partition of the topic, each from the
\* committed offset of the group.
C22_SurvivorPicksUpAll ==
    (Silent /\ cons[1].state # "none" /\ cons[2].refreshes = 0) ~> PicksUpAll

\* consumer 1 yielded and committed offset 1 of its partition 0 and closed;
\* after 30 seconds consumer 2, which had partition 1 only and yielded its
\* record, polls partition 0 from offset 1
C22_Witness ==
    /\ PicksUpAll
    /\ cons[1].state = "closed"
    /\ cons[1].member_id = "a"
    /\ Len(cons[1].yielded) = 1
    /\ Len(cons[2].yielded) >= 1
    /\ CommittedOffset(consumer_offsets, DefaultGroup, "orders", 0) = 1
    /\ now * TickMs > StaleSeconds * 1000

(* ===== SpecSole: producers and the only consumer of a group ============= *)
\* Topic "orders" is created with 1 partition; two producer threads send up to
\* MaxSoleMsgs messages with partition argument 0 or 1, in any interleaving,
\* all before the consumer is iterated; the only consumer of the default group
\* is constructed with nothing committed and iterated once, with an idle
\* timeout that does not expire before MaxSoleNow.  No cleanup and no
\* clear_topic.
MaxSoleMsgs == 2
MaxSoleNow == 4
SoleTimeoutMs == RefreshMs
SolePartitionArgs == {0, 1}

SoleCreate ==
    /\ topics = <<>>
    /\ CreateTopic("orders", DefaultPartitions, DefaultRetentionHours)

\* the application has not yet asked the consumer for a record
NotIterated == cons[1].state \in {"none", "ready"}

SoleSend ==
    /\ NotIterated
    /\ "orders" \in DOMAIN topics
    /\ \E c \in Producers, p \in SolePartitionArgs :
           SendBegin(c, "orders", p, E2EValue, "None", MaxSoleMsgs)

SoleInsert == NotIterated /\ \E c \in Producers : SendInsert(c)

SoleConstruct ==
    /\ "orders" \in DOMAIN topics
    /\ Construct(1, DefaultGroup, "a", <<"orders">>, SoleTimeoutMs)

SoleIterate == cons[1].iters = 0 /\ IterStart(1)

SoleWakeUp == cons[1].wake <= MaxSoleNow /\ WakeUp(1)

\* the consumer is constructed and keeps iterating, and its application asks
\* for the next record
SoleRun ==
    \/ SoleConstruct
    \/ SoleIterate
    \/ LoopTop(1)
    \/ Fetch(1)
    \/ Deliver(1)
    \/ Resume(1)
    \/ EndSweep(1)
    \/ SoleWakeUp

NextSole ==
    \/ SoleCreate
    \/ SoleSend
    \/ SoleInsert
    \/ SoleRun

SpecSole == Init /\ [][NextSole]_vars /\ WF_vars(SoleRun)

(* ======================== claims checked under SpecSole ================= *)
SentOk(id) == \E i \in 1..Len(messages) : messages[i].id = id

YieldedToSole(id) == \E j \in 1..Len(cons[1].yielded) : cons[1].yielded[j].id = id

\* C31: with no cleanup and no clear_topic, every message for which
\* send_message returned an offset >= 0 on an existing topic, whatever its
\* partition argument and however the producers interleave, is eventually
\* yielded to the consumer that is the only member of its group, starts from
\* committed offset 0 and keeps iterating.  The sends are finitely many, no
\* message is removed and a yielded record stays yielded, so this is: from
\* some point on every stored message has been yielded.
AllSentYielded == \A id \in 1..MaxSoleMsgs : SentOk(id) => YieldedToSole(id)

C31_SoleConsumerGetsAll == <>[]AllSentYielded

(* ===== SpecReuse: produce, consumer commit, cleanup and clear_topic ===== *)
\* One producer, one consumer of the default group that iterates once and
\* commits, and an administrator that calls cleanup_old_messages and
\* clear_topic; the clock moves in steps of 6 hours while the consumer is not
\* iterating, and the topic keeps its messages for ReuseRetentionHours.
MaxReuseMsgs == 2
MaxReuseSteps == 2
ReuseRetentionHours == AdminRetentionHours

\* the consumer is between two calls of its application, not inside a sweep
Settled == cons[1].state \in {"none", "ready", "yielded", "ended"}

ReuseCreate ==
    /\ topics = <<>>
    /\ CreateTopic("orders", DefaultPartitions, ReuseRetentionHours)

ReuseSend ==
    /\ "orders" \in DOMAIN topics
    /\ Settled
    /\ SendBegin(1, "orders", 0, E2EValue, "None", MaxReuseMsgs)

ReuseConstruct ==
    /\ "orders" \in DOMAIN topics
    /\ Construct(1, DefaultGroup, "a", <<"orders">>, DefaultTimeoutMs)

ReuseIterate == cons[1].iters = 0 /\ IterStart(1)

ReuseWakeUp == cons[1].wake <= MaxReuseSteps * RetentionStep /\ WakeUp(1)

ReuseClear ==
    /\ "orders" \in DOMAIN topics
    /\ Settled
    /\ Len(messages) > 0
    /\ ClearTopic("orders")

ReuseCleanup == Settled /\ Len(messages) > 0 /\ CleanupOldMessages

ReuseTick ==
    /\ cons[1].state \in {"none", "ready", "ended"}
    /\ Tick(RetentionStep, MaxReuseSteps * RetentionStep)

NextReuse ==
    \/ ReuseCreate
    \/ ReuseSend
    \/ SendInsert(1)
    \/ ReuseConstruct
    \/ ReuseIterate
    \/ LoopTop(1)
    \/ Fetch(1)
    \/ Deliver(1)
    \/ Resume(1)
    \/ EndSweep(1)
    \/ ReuseWakeUp
    \/ Commit(1)
    \/ ReuseClear
    \/ ReuseCleanup
    \/ ReuseTick

SpecReuse == Init /\ [][NextReuse]_vars

(* ======================= claims checked under SpecReuse ================= *)
\* C33: under any sequence of produce, consumer commit, cleanup_old_messages
\* and clear_topic, the committed offset a consumer client has written for a
\* (group, topic, partition) is never greater than the offset the next append
\* to that partition will receive, so that a message appended after a commit
\* is not skipped by the group's next consumer.
C33_CommittedAtMostNextAppend ==
    \A k \in DOMAIN consumer_offsets :
        consumer_offsets[k] <= NextOffset(messages, k[2], k[3])

(* ===== SpecFault: the committed-offset fetch of a consumer may fail ===== *)
\* Consumer 1 of the default group is constructed, iterates, commits and
\* closes; consumer 2 of the same group is constructed afterwards, and the
\* SELECT of get_committed_offset may raise for any of its partitions, in
\* which case the except clause returns 0.
MaxFaultMsgs == 2
MaxFaultNow == 8
FaultKeys == {<<"orders", 0>>}

\* lines 261-273: what get_committed_offset returns for each key, the stored
\* offset or 0 from the except clause for the keys whose SELECT raises
FetchedOffsets(co, g, failing) ==
    [k \in DOMAIN co |->
        IF k[1] = g /\ <<k[2], k[3]>> \in failing THEN 0 ELSE co[k]]

\* _refresh_assignments when the fetch fails for the keys in failing
RefreshedFailing(k, gm, failing) ==
    LET assigned == AssignedEntries(gm, topics,
                                    FetchedOffsets(consumer_offsets, k.group_id, failing),
                                    k.group_id, k.member_id, k.topics)
    IN  [k EXCEPT !.assigned_partitions = assigned,
                  !.current_offsets = DictUpdate(k.current_offsets, assigned),
                  !.resume = AddNew(k.resume, assigned),
                  !.failed_fetch = @ \cup (Keys(assigned) \cap failing)]

\* SimpleKafkaConsumer(...) with a store that fails as above
ConstructFailing(c, g, m, tops, timeout_ms, failing) ==
    /\ cons[c].state = "none"
    /\ group_members' = RefreshMembers(group_members, g, m, tops, UtcSeconds(now))
    /\ cons' = [cons EXCEPT ![c] =
                   RefreshedFailing([NoConsumer EXCEPT
                                         !.state = "ready", !.group_id = g,
                                         !.member_id = m, !.topics = tops,
                                         !.consumer_timeout_ms = timeout_ms,
                                         !.born_at = next_id,
                                         !.prior = {o \in Consumers :
                                                       cons[o].state = "closed"}],
                                    group_members', failing)]
    /\ UNCHANGED <<topics, messages, next_id, consumer_offsets, now, tz, prod, ret,
                   histVars>>

FaultCreate ==
    /\ topics = <<>>
    /\ CreateTopic("orders", DefaultPartitions, DefaultRetentionHours)

FaultSend ==
    /\ "orders" \in DOMAIN topics
    /\ SendBegin(1, "orders", 0, E2EValue, "None", MaxFaultMsgs)

FaultFirst ==
    /\ "orders" \in DOMAIN topics
    /\ Construct(1, DefaultGroup, "b", <<"orders">>, DefaultTimeoutMs)

FaultConstruct ==
    /\ cons[1].state = "closed"
    /\ \E failing \in SUBSET FaultKeys :
           ConstructFailing(2, DefaultGroup, "a", <<"orders">>, DefaultTimeoutMs,
                            failing)

FaultIterate == \E c \in Consumers : cons[c].iters = 0 /\ IterStart(c)

FaultWakeUp == \E c \in Consumers : cons[c].wake <= MaxFaultNow /\ WakeUp(c)

FaultCommit == \E c \in Consumers : Commit(c)

FaultClose == \E c \in Consumers : Close(c)

NextFault ==
    \/ FaultCreate
    \/ FaultSend
    \/ SendInsert(1)
    \/ FaultFirst
    \/ FaultConstruct
    \/ FaultIterate
    \/ \E c \in Consumers : LoopTop(c)
    \/ \E c \in Consumers : Fetch(c)
    \/ \E c \in Consumers : Deliver(c)
    \/ \E c \in Consumers : Resume(c)
    \/ \E c \in Consumers : EndSweep(c)
    \/ FaultWakeUp
    \/ FaultCommit
    \/ FaultClose

SpecFault == Init /\ [][NextFault]_vars

(* ======================= claims checked under SpecFault ================= *)
\* C34: a failed committed-offset fetch is not mistaken for progress 0: once
\* get_committed_offset has failed for a partition during a consumer's
\* construction or refresh (and returned the sentinel 0), no commit() or
\* close() of that consumer lowers the offset stored for its group and that
\* partition.
C34_FailedFetchNotProgress ==
    [][\A c \in Consumers :
          (Commit(c) \/ Close(c)) =>
              \A key \in cons[c].failed_fetch :
                  LET k == <<cons[c].group_id, key[1], key[2]>>
                  IN  k \in DOMAIN consumer_offsets =>
                          consumer_offsets'[k] >= consumer_offsets[k]]_vars

(* ========== RestKafkaServerProxy and the Flask endpoints ================ *)
\* A request reaches the gateway (up) or fails with a connection error.  The
\* integers of a query string or a URL path come back as the same integers
\* (int(str(n))); a value sent in a JSON body is decoded by the endpoint.
HttpBody(v) == JsonLoads(JsonDumps(v))

\* jsonify(msgs) decoded by resp.json()
HttpRows(rows) == [i \in 1..Len(rows) |-> [rows[i] EXCEPT !.value = HttpBody(@)]]

\* resp.json().get(field, default)
JsonGet(obj, field, default) == IF field \in DOMAIN obj THEN obj[field] ELSE default

\* try: return <result of the request>  except: return <sentinel>.  The
\* outcome of a client call: the value returned, or an exception raised.
Uncaught(up, result, sentinel) ==
    [raised |-> ~ up, val |-> IF up THEN result ELSE sentinel]

Caught(up, result, sentinel) ==
    [raised |-> FALSE, val |-> IF up THEN result ELSE sentinel]

\* what a proxy call leaves in ret
ProxyRet(op, args, up, out) ==
    [op |-> op, args |-> args, val |-> out.val,
     aux |-> [up |-> up, raised |-> out.raised]]

\* RestKafkaServerProxy.list_topics -> api_list_topics
GwListTopics(up) ==
    /\ ret' = ProxyRet("proxy_list_topics", <<>>, up,
                      Caught(up, ListTopics(topics), {}))
    /\ UNCHANGED <<storeVars, now, tz, prod, cons, histVars>>

\* RestKafkaServerProxy.send_message -> api_produce -> send_message, one call
\* at a time.  requests.post(json=...) serializes the body before it connects:
\* with a value json.dumps rejects it raises inside the try and no request is
\* sent.
GwSendMessage(up, t, v, k, p, max) ==
    /\ \A c \in Producers : prod[c].pc = "idle"
    /\ next_id - 1 < max
    /\ LET sent == up /\ Serializable(v)
           body == [value |-> HttpBody(v), key |-> k, partition |-> p]
           offset == NextOffset(messages, t, body.partition)
           resp == [offset |-> offset, topic |-> t, partition |-> body.partition]
       IN  /\ ret' = ProxyRet("proxy_send", <<t, p, v, k>>, up,
                      Caught(sent, JsonGet(resp, "offset", -1), -1))
           /\ IF sent
              THEN /\ topics' = EnsureTopic(topics, t)
                   /\ first_created' = IF t \in DOMAIN first_created THEN first_created
                                       ELSE first_created @@ (t :> DefaultPartitions)
                   /\ messages' = InsertMessage(messages, next_id, t, body.partition,
                                                offset, body.key, body.value,
                                                UtcSeconds(now))
                   /\ next_id' = next_id + 1
                   /\ returned' = [returned EXCEPT ![<<t, body.partition>>] =
                                       Append(@, offset)]
              ELSE UNCHANGED <<topics, first_created, messages, next_id, returned>>
    /\ UNCHANGED <<consumer_offsets, group_members, now, tz, prod, cons, last_commit>>

\* RestKafkaServerProxy.consume_messages -> api_consume
GwConsumeMessages(up, t, p, from, limit) ==
    /\ ret' = ProxyRet("proxy_consume", <<t, p, from, limit>>, up,
                      Caught(up, HttpRows(ConsumeRows(messages, t, p, from, limit)), <<>>))
    /\ UNCHANGED <<storeVars, now, tz, prod, cons, histVars>>

\* RestKafkaServerProxy.commit_offset -> api_commit
GwCommitOffset(up, g, t, p, off) ==
    /\ ret' = ProxyRet("proxy_commit_offset", <<g, t, p, off>>, up,
                      Caught(up, 0, 0))
    /\ IF up
       THEN /\ consumer_offsets' = CommitRows(consumer_offsets, g, t, p, off)
            /\ last_commit' = CommitHistory(last_commit, g,
                                   <<[topic |-> t, partition |-> p, offset |-> off]>>)
       ELSE UNCHANGED <<consumer_offsets, last_commit>>
    /\ UNCHANGED <<topics, messages, next_id, group_members, now, tz, prod, cons,
                   returned, first_created>>

\* RestKafkaServerProxy.get_committed_offset -> api_get_offset
GwGetCommittedOffset(up, g, t, p) ==
    /\ ret' = ProxyRet("proxy_get_committed_offset", <<g, t, p>>, up,
                      Caught(up, JsonGet([offset |-> CommittedOffset(consumer_offsets, g, t, p)],
                                          "offset", 0), 0))
    /\ UNCHANGED <<storeVars, now, tz, prod, cons, histVars>>

\* RestKafkaServerProxy.register_consumer -> api_heartbeat
GwRegisterConsumer(up, g, m) ==
    /\ ret' = ProxyRet("proxy_register_consumer", <<g, m>>, up,
                      Caught(up, 0, 0))
    /\ group_members' = IF up THEN RegisterRows(group_members, g, m, UtcSeconds(now))
                        ELSE group_members
    /\ UNCHANGED <<topics, messages, next_id, consumer_offsets, now, tz, prod, cons,
                   histVars>>

\* RestKafkaServerProxy.get_group_assignments -> api_assignments
GwGetGroupAssignments(up, g, t, m) ==
    /\ ret' = ProxyRet("proxy_get_group_assignments", <<g, t, m>>, up,
                      Caught(up, JsonGet([partitions |-> Assignments(group_members, topics, g, t, m,
                                                             UtcSeconds(now))],
                                          "partitions", <<>>), <<>>))
    /\ group_members' = IF up THEN PurgeStale(group_members, UtcSeconds(now))
                        ELSE group_members
    /\ UNCHANGED <<topics, messages, next_id, consumer_offsets, now, tz, prod, cons,
                   histVars>>

\* SimpleKafkaProducer.send with a base_url: the produce request, own try/except
RestProducerSend(up, t, v, k, p, max) == GwSendMessage(up, t, Serialized(v), k, p, max)

(* ============ SimpleKafkaConsumer with a base_url (REST mode) =========== *)
\* The same object as above; the specification that uses these actions is the
\* one whose consumers were given a base_url.  Each action takes the state of
\* the gateway (up or unreachable) while it runs.

\* _refresh_assignments, lines 534-548 and 555: heartbeat, assignment and
\* committed offsets by requests, inside one try per topic
RestRefreshed(k, gm, up) ==
    LET out == Caught(up, AssignedEntries(gm, topics, consumer_offsets, k.group_id,
                                          k.member_id, k.topics), <<>>)
    IN  IF out.raised THEN [k EXCEPT !.state = "raised"]
        ELSE [k EXCEPT !.assigned_partitions = out.val,
                       !.current_offsets = DictUpdate(k.current_offsets, out.val),
                       !.resume = AddNew(k.resume, out.val),
                       !.unreachable = @ \/ ~ up]

RestConstruct(c, g, m, tops, timeout_ms, up) ==
    /\ cons[c].state = "none"
    /\ group_members' = IF up THEN RefreshMembers(group_members, g, m, tops, UtcSeconds(now))
                        ELSE group_members
    /\ cons' = [cons EXCEPT ![c] =
                   RestRefreshed([NoConsumer EXCEPT
                                      !.state = "ready", !.group_id = g,
                                      !.member_id = m, !.topics = tops,
                                      !.consumer_timeout_ms = timeout_ms,
                                      !.born_at = next_id,
                                      !.prior = {o \in Consumers : cons[o].state = "closed"}],
                                 group_members', up)]
    /\ UNCHANGED <<topics, messages, next_id, consumer_offsets, now, tz, prod, ret,
                   histVars>>

\* lines 562-568 with the refresh by requests
RestLoopTop(c, up) ==
    /\ cons[c].state = "loop"
    /\ LET due == (now - cons[c].last_refresh) * TickMs > RefreshMs
           k == [cons[c] EXCEPT !.state = "fetch", !.found = FALSE, !.pos = 1]
       IN  IF due
           THEN /\ group_members' =
                       IF up THEN RefreshMembers(group_members, k.group_id, k.member_id,
                                                 k.topics, UtcSeconds(now))
                       ELSE group_members
                /\ cons' = [cons EXCEPT ![c] =
                               RestRefreshed([k EXCEPT !.last_refresh = now,
                                                       !.refreshes = @ + 1],
                                             group_members', up)]
           ELSE /\ cons' = [cons EXCEPT ![c] = k]
                /\ UNCHANGED group_members
    /\ UNCHANGED <<topics, messages, next_id, consumer_offsets, now, tz, prod, ret,
                   histVars>>

\* lines 570-576: the consume request, msgs = [] when it fails
RestFetch(c, up) ==
    /\ cons[c].state = "fetch"
    /\ cons[c].pos <= Len(cons[c].current_offsets)
    /\ LET e == cons[c].current_offsets[cons[c].pos]
           out == Caught(up, HttpRows(ConsumeRows(messages, e.topic, e.partition,
                                                  <<e.offset>>, FetchLimit)), <<>>)
       IN  cons' = IF out.raised THEN [cons EXCEPT ![c].state = "raised"]
                   ELSE IF out.val = <<>>
                   THEN [cons EXCEPT ![c].pos = @ + 1, ![c].unreachable = @ \/ ~ up]
                   ELSE [cons EXCEPT ![c].batch = out.val, ![c].state = "deliver"]
    /\ UNCHANGED <<storeVars, now, tz, prod, ret, histVars>>

\* the commit requests of commit(), each inside try ... except: pass; the
\* consumer after them
RestAfterCommit(k, up, next_state) ==
    LET out == Caught(up, 0, 0) IN
        IF out.raised /\ k.current_offsets # <<>> THEN [k EXCEPT !.state = "raised"]
        ELSE [k EXCEPT !.state = next_state,
                       !.unreachable = @ \/ (~ up /\ k.current_offsets # <<>>)]

RestCommit(c, up) ==
    /\ cons[c].state \in {"ready", "yielded", "ended"}
    /\ consumer_offsets' = IF up THEN CommitAll(consumer_offsets, cons[c].group_id,
                                                cons[c].current_offsets)
                           ELSE consumer_offsets
    /\ last_commit' = IF up THEN CommitHistory(last_commit, cons[c].group_id,
                                               cons[c].current_offsets)
                      ELSE last_commit
    /\ cons' = [cons EXCEPT ![c] = RestAfterCommit(cons[c], up, cons[c].state)]
    /\ UNCHANGED <<topics, messages, next_id, group_members, now, tz, prod, ret,
                   returned, first_created>>

\* close(): commit()
RestClose(c, up) ==
    /\ cons[c].state \in {"ready", "yielded", "ended"}
    /\ consumer_offsets' = IF up THEN CommitAll(consumer_offsets, cons[c].group_id,
                                                cons[c].current_offsets)
                           ELSE consumer_offsets
    /\ last_commit' = IF up THEN CommitHistory(last_commit, cons[c].group_id,
                                               cons[c].current_offsets)
                      ELSE last_commit
    /\ cons' = [cons EXCEPT ![c] = RestAfterCommit(cons[c], up, "closed")]
    /\ UNCHANGED <<topics, messages, next_id, group_members, now, tz, prod, ret,
                   returned, first_created>>

(* ====== SpecGateway: clients of the gateway, reachable or not =========== *)
\* One client uses a RestKafkaServerProxy, a producer and a consumer, all with
\* a base_url; every request finds the gateway up or unreachable.  The
\* application pauses 10.5 seconds over a record, up to MaxGwNow.
MaxGwMsgs == 2
MaxGwNow == 25
GwFroms == {<<>>, <<1>>}

\* the application uses the proxy and the producer first, then the consumer
ProxyTurn == cons[1].state = "none"

GwPause ==
    /\ cons[1].state = "yielded"
    /\ \E d \in ConsumerPauses : Tick(d, MaxGwNow)

GwIterate == cons[1].iters < 1 /\ IterStart(1)

\* values sent through the gateway: a list, a tuple, an empty list (false in
\* line 484) and a set
GwValues == PyValues \cup {<<"list", 0>>, Unserializable}

CallListTopics == \E up \in BOOLEAN : ProxyTurn /\ GwListTopics(up)

CallSendMessage ==
    \E up \in BOOLEAN, v \in {<<"tuple", 1>>, Unserializable} :
        ProxyTurn /\ GwSendMessage(up, "orders", v, "None", 0, MaxGwMsgs)

CallConsumeMessages ==
    \E up \in BOOLEAN, from \in GwFroms :
        ProxyTurn /\ GwConsumeMessages(up, "orders", 0, from, DefaultLimit)

CallCommitOffset == \E up \in BOOLEAN : ProxyTurn /\ GwCommitOffset(up, "g1", "orders", 0, 1)

CallGetCommittedOffset ==
    \E up \in BOOLEAN : ProxyTurn /\ GwGetCommittedOffset(up, "g1", "orders", 0)

CallRegisterConsumer == \E up \in BOOLEAN : ProxyTurn /\ GwRegisterConsumer(up, "g1", "a")

CallGetGroupAssignments ==
    \E up \in BOOLEAN : ProxyTurn /\ GwGetGroupAssignments(up, "g1", "orders", "a")

CallProducerSend ==
    \E up \in BOOLEAN, v \in {<<"list", 1>>, <<"list", 0>>} :
        ProxyTurn /\ RestProducerSend(up, "orders", v, "None", 0, MaxGwMsgs)

GwConstruct ==
    \E up \in BOOLEAN : RestConstruct(1, "g1", "b", <<"orders">>, DefaultTimeoutMs, up)

GwLoopTop == \E up \in BOOLEAN : RestLoopTop(1, up)
GwFetch == \E up \in BOOLEAN : RestFetch(1, up)
GwDeliver == Deliver(1)
GwResume == Resume(1)
GwEndSweep == EndSweep(1)
GwWakeUp == WakeUp(1)
GwCommit == \E up \in BOOLEAN : RestCommit(1, up)
GwClose == \E up \in BOOLEAN : RestClose(1, up)

NextGateway ==
    \/ CallListTopics
    \/ CallSendMessage
    \/ CallConsumeMessages
    \/ CallCommitOffset
    \/ CallGetCommittedOffset
    \/ CallRegisterConsumer
    \/ CallGetGroupAssignments
    \/ CallProducerSend
    \/ GwConstruct
    \/ GwIterate
    \/ GwLoopTop
    \/ GwFetch
    \/ GwDeliver
    \/ GwResume
    \/ GwEndSweep
    \/ GwWakeUp
    \/ GwCommit
    \/ GwClose
    \/ GwPause

SpecGateway == Init /\ [][NextGateway]_vars

(* ====================== claims checked under SpecGateway ================ *)
\* the result and the store after send_message(t, v, k, p) on the broker
\* itself (lines 186-210): the topic is ensured, then the record is inserted
\* and its offset returned, or json.dumps raises and -1 is returned
DirectSend(t, v, k, p) ==
    /\ topics' = EnsureTopic(topics, t)
    /\ IF Serializable(v)
       THEN /\ ret'.val = NextOffset(messages, t, p)
            /\ messages' = InsertMessage(messages, next_id, t, p,
                                         NextOffset(messages, t, p), k, v,
                                         UtcSeconds(now))
       ELSE /\ ret'.val = -1
            /\ UNCHANGED messages
    /\ UNCHANGED <<consumer_offsets, group_members>>

\* a request that reaches the gateway does what the same call does on the broker
ProxyAsDirect ==
    /\ GwListTopics(TRUE) => ret'.val = ListTopics(topics) /\ UNCHANGED storeVars
    /\ \A v \in GwValues :
           GwSendMessage(TRUE, "orders", v, "None", 0, MaxGwMsgs) =>
               DirectSend("orders", v, "None", 0)
    /\ \A from \in GwFroms :
           GwConsumeMessages(TRUE, "orders", 0, from, DefaultLimit) =>
               /\ ret'.val = ConsumeRows(messages, "orders", 0, from, DefaultLimit)
               /\ UNCHANGED storeVars
    /\ GwCommitOffset(TRUE, "g1", "orders", 0, 1) =>
           /\ consumer_offsets' = CommitRows(consumer_offsets, "g1", "orders", 0, 1)
           /\ UNCHANGED <<topics, messages, next_id, group_members>>
    /\ GwGetCommittedOffset(TRUE, "g1", "orders", 0) =>
           /\ ret'.val = CommittedOffset(consumer_offsets, "g1", "orders", 0)
           /\ UNCHANGED storeVars
    /\ GwRegisterConsumer(TRUE, "g1", "a") =>
           /\ group_members' = RegisterRows(group_members, "g1", "a", UtcSeconds(now))
           /\ UNCHANGED <<topics, messages, next_id, consumer_offsets>>
    /\ GwGetGroupAssignments(TRUE, "g1", "orders", "a") =>
           /\ ret'.val = Assignments(group_members, topics, "g1", "orders", "a",
                                     UtcSeconds(now))
           /\ group_members' = PurgeStale(group_members, UtcSeconds(now))
           /\ UNCHANGED <<topics, messages, next_id, consumer_offsets>>

\* a producer or consumer with a base_url does, when its requests reach the
\* gateway, what the in-process object does
RestAsInProcess ==
    /\ \A v \in GwValues :
           RestProducerSend(TRUE, "orders", v, "None", 0, MaxGwMsgs) =>
               DirectSend("orders", Serialized(v), "None", 0)
    /\ RestConstruct(1, "g1", "b", <<"orders">>, DefaultTimeoutMs, TRUE) =>
           Construct(1, "g1", "b", <<"orders">>, DefaultTimeoutMs)
    /\ RestLoopTop(1, TRUE) => LoopTop(1)
    /\ RestFetch(1, TRUE) => Fetch(1)
    /\ RestCommit(1, TRUE) => Commit(1)
    /\ RestClose(1, TRUE) => Close(1)

\* C14: every list-topics, produce, consume, commit, fetch-offset, heartbeat
\* and get-assignment request that reaches the gateway returns what the same
\* call returns on SimpleKafkaServer and leaves the store as that call leaves
\* it (one broker operation, nothing buffered), and so do the steps of a
\* producer and a consumer with a base_url; hence equal results and stores for
\* every sequence of operations.
C14_GatewayTransparent == [][ProxyAsDirect /\ RestAsInProcess]_vars

\* a client call made while the gateway is unreachable returns its sentinel
ProxySentinels ==
    /\ GwListTopics(FALSE) => ret'.val = {} /\ ~ ret'.aux.raised
    /\ \A v \in GwValues :
           (\/ GwSendMessage(FALSE, "orders", v, "None", 0, MaxGwMsgs)
            \/ RestProducerSend(FALSE, "orders", v, "None", 0, MaxGwMsgs)) =>
               ret'.val = -1 /\ ~ ret'.aux.raised
    /\ \A from \in GwFroms :
           GwConsumeMessages(FALSE, "orders", 0, from, DefaultLimit) =>
               ret'.val = <<>> /\ ~ ret'.aux.raised
    /\ GwCommitOffset(FALSE, "g1", "orders", 0, 1) => ~ ret'.aux.raised
    /\ GwGetCommittedOffset(FALSE, "g1", "orders", 0) =>
           ret'.val = 0 /\ ~ ret'.aux.raised
    /\ GwRegisterConsumer(FALSE, "g1", "a") => ~ ret'.aux.raised
    /\ GwGetGroupAssignments(FALSE, "g1", "orders", "a") =>
           ret'.val = <<>> /\ ~ ret'.aux.raised

\* C18: with the gateway unreachable, proxy send_message and the REST
\* producer give -1, consume_messages an empty list, get_committed_offset 0,
\* get_group_assignments and list_topics an empty list, commit and heartbeat
\* return; construction, iteration and commit of a REST-mode consumer raise
\* nothing.
C18_UnreachableGivesSentinels ==
    [][/\ ProxySentinels
       /\ (\/ RestConstruct(1, "g1", "b", <<"orders">>, DefaultTimeoutMs, FALSE)
           \/ RestLoopTop(1, FALSE) \/ RestFetch(1, FALSE)
           \/ RestCommit(1, FALSE) \/ RestClose(1, FALSE)) =>
              cons'[1].state # "raised"
       /\ cons'[1].state # "raised"]_vars

\* a consumer constructed while the gateway was up has iterated to its idle
\* timeout and closed while it was unreachable: its cursor was not committed
C18_Witness ==
    /\ cons[1].state = "closed"
    /\ cons[1].iters = 1
    /\ cons[1].unreachable
    /\ cons[1].current_offsets # <<>>
    /\ consumer_offsets = <<>>
    /\ ret.op = "proxy_send"
    /\ ~ ret.aux.up
    /\ ret.val = -1

====
